---- MODULE Spec2Model ----
(***************************************************************************)
(* Request orchestration (server/routes.ts) over the volatile storage      *)
(* (MemStorage, server/storage.ts) of the moving-cost calculator.          *)
(*                                                                         *)
(* Every route handler is an async function.  A MemStorage method has no   *)
(* await in its body, so it runs to completion at the moment it is called; *)
(* the handler that calls it with `await` is then suspended and resumed    *)
(* later by the event loop.  A handler is therefore a sequence of blocks,  *)
(* each block ending with the storage call it makes (or with the response),*)
(* and blocks of different requests in flight may be scheduled in any      *)
(* order.  One action of this module is one block.                         *)
(***************************************************************************)
EXTENDS Integers, Sequences, FiniteSets, TLC

(***************************************************************************)
(* Bounds of the model.                                                    *)
(***************************************************************************)
\* registered users are 1..NumUsers (req.user.id of an authenticated caller)
NumUsers == 2
\* requests in flight at the same time
MaxInFlight == 2
\* checklists created in one behaviour
MaxChecklists == 1
\* estimates created in one behaviour
MaxEstimates == 1
\* users whose progress requests are followed: 1..NumProgressUsers
NumProgressUsers == 1
\* progress requests (get, update, unlock) accepted in one behaviour
MaxProgressRequests == 3
\* item ids a toggle request may name: 1..MaxItemInput
MaxItemInput == 1
\* readings of the wall clock: 0..MaxClock
MaxClock == 1

\* progress requests accepted when the requests of every route are served one
\* after another
MaxSequentialProgress == 2

\* checklists created in one behaviour of the routes that link a checklist to
\* an estimate
MaxLinkedChecklists == 2

\* records of one kind created by calls of the storage methods
MaxStored == 2
\* estimates stored where the list of a user's estimates is followed
MaxListedEstimates == 2

\* services in the list of a request whose totals are compared
MaxCallServices == 3

\* Math.random() takes the values 0/RandomResolution ..
\* (RandomResolution - 1)/RandomResolution
RandomResolution == 32
\* services in the list of one cost request
MaxServices == 2
\* comma-separated parts of an address
MaxAddressParts == 2
\* distances of a call of the cost per distance: 0..MaxCallDistance
MaxCallDistance == 30

\* moveCalculationRequestSchema: origin and destination have at least this
\* many characters
MinAddressLength == 5

Users == 1..NumUsers
Handlers == 1..MaxInFlight

\* `null` of a nullable foreign key; also the caller of a request without a
\* session user (req.isAuthenticated() is false).  `x || null` maps 0 to null.
Null == 0

Callers == Users \cup {Null}

VARIABLES
    moveEstimates,          \* MemStorage.moveEstimates: id -> MoveEstimate
    moveChecklists,         \* MemStorage.moveChecklists: id -> MoveChecklist
    checklistItems,         \* MemStorage.checklistItems: id -> ChecklistItem
    userProgressMap,        \* MemStorage.userProgressMap: id -> UserProgress
    currentEstimateId,
    currentChecklistId,
    currentChecklistItemId,
    currentProgressId,
    now,                    \* the wall clock read by new Date()
    handler,                \* per request in flight: its position and locals
    progressRequests,       \* progress requests accepted so far
    db,                     \* the tables DatabaseStorage works on
    response                \* the response sent by the last step, if any

storageVars == <<moveEstimates, moveChecklists, checklistItems, userProgressMap,
                 currentEstimateId, currentChecklistId, currentChecklistItemId,
                 currentProgressId>>
estimateVars == <<moveEstimates, currentEstimateId>>
checklistVars == <<moveChecklists, checklistItems, currentChecklistId,
                   currentChecklistItemId>>
progressVars == <<userProgressMap, currentProgressId>>
vars == <<moveEstimates, moveChecklists, checklistItems, userProgressMap,
          currentEstimateId, currentChecklistId, currentChecklistItemId,
          currentProgressId, now, handler, progressRequests, db, response>>

(***************************************************************************)
(* JavaScript Map and Array helpers.  A Map iterates in insertion order;   *)
(* every key is inserted with the value of a counter that only grows and   *)
(* Map.set on a present key keeps its place, so insertion order is         *)
(* ascending key order.                                                    *)
(***************************************************************************)
EmptyMap == [k \in {} |-> 0]

\* the tables of the database with no row; the serial of a table starts at 1
EmptyDatabase == [userProgress |-> {}, userProgressId |-> 1]

MapSet(m, k, v) == [x \in (DOMAIN m) \cup {k} |-> IF x = k THEN v ELSE m[x]]

Min(S) == CHOOSE x \in S : \A y \in S : x <= y

RECURSIVE KeysInOrder(_)
KeysInOrder(S) ==
    IF S = {} THEN <<>> ELSE <<Min(S)>> \o KeysInOrder(S \ {Min(S)})

\* Array.from(m.values()).filter(...) for the keys K that pass the filter
ValuesOf(m, K) == [i \in 1..Cardinality(K) |-> m[KeysInOrder(K)[i]]]

\* Array.prototype.includes
Includes(arr, x) == \E i \in 1..Len(arr) : arr[i] = x

\* an optional value (T | undefined): <<>> is undefined, <<v>> is v
Undefined == <<>>
Some(v) == <<v>>
IsDefined(opt) == opt # <<>>


(***************************************************************************)
(* MemStorage: the methods.  Each operator gives the record the method     *)
(* returns; the action that calls it stores the record and advances the    *)
(* counter, as the method does.                                            *)
(***************************************************************************)
\* text values: a field absent from a request body, and SQL/JS null
UndefinedText == "undefined"
NullText == "null"

\* x || null on a number and on a string
NumberOrNull(x) == IF x = 0 THEN Null ELSE x
TextOrNull(x) == IF x \in {UndefinedText, NullText, ""} THEN NullText ELSE x

\* createMoveEstimate that takes the id of the first estimate again
createMoveEstimateSameId(insertEstimate) ==
    [id |-> 1,
     userId |-> NumberOrNull(insertEstimate.userId),
     origin |-> insertEstimate.origin,
     destination |-> insertEstimate.destination,
     distance |-> insertEstimate.distance,
     homeSize |-> insertEstimate.homeSize,
     additionalItems |-> TextOrNull(insertEstimate.additionalItems),
     moveDate |-> insertEstimate.moveDate,
     flexibility |-> TextOrNull(insertEstimate.flexibility),
     services |-> IF IsDefined(insertEstimate.services)
                  THEN insertEstimate.services[1] ELSE <<>>,
     costDiy |-> insertEstimate.costDiy,
     costHybrid |-> insertEstimate.costHybrid,
     costFullService |-> insertEstimate.costFullService,
     createdAt |-> now]

createMoveEstimate(insertEstimate) ==
    [id |-> currentEstimateId,
     userId |-> NumberOrNull(insertEstimate.userId),
     origin |-> insertEstimate.origin,
     destination |-> insertEstimate.destination,
     distance |-> insertEstimate.distance,
     homeSize |-> insertEstimate.homeSize,
     additionalItems |-> TextOrNull(insertEstimate.additionalItems),
     moveDate |-> insertEstimate.moveDate,
     flexibility |-> TextOrNull(insertEstimate.flexibility),
     services |-> IF IsDefined(insertEstimate.services)
                  THEN insertEstimate.services[1] ELSE <<>>,
     costDiy |-> insertEstimate.costDiy,
     costHybrid |-> insertEstimate.costHybrid,
     costFullService |-> insertEstimate.costFullService,
     createdAt |-> now]

getMoveEstimate(id) ==
    IF id \in DOMAIN moveEstimates THEN Some(moveEstimates[id]) ELSE Undefined

getAllMoveEstimates == ValuesOf(moveEstimates, DOMAIN moveEstimates)

getUserEstimates(userId) ==
    ValuesOf(moveEstimates,
             {k \in DOMAIN moveEstimates : moveEstimates[k].userId = userId})

\* createMoveChecklist that stores the checklist without its owner
createMoveChecklistUnowned(insertChecklist) ==
    [id |-> currentChecklistId,
     userId |-> Null,
     estimateId |-> NumberOrNull(insertChecklist.estimateId),
     moveDate |-> insertChecklist.moveDate,
     createdAt |-> now]

createMoveChecklist(insertChecklist) ==
    [id |-> currentChecklistId,
     userId |-> insertChecklist.userId,
     estimateId |-> NumberOrNull(insertChecklist.estimateId),
     moveDate |-> insertChecklist.moveDate,
     createdAt |-> now]

getMoveChecklist(id) ==
    IF id \in DOMAIN moveChecklists THEN Some(moveChecklists[id]) ELSE Undefined

getUserChecklists(userId) ==
    ValuesOf(moveChecklists,
             {k \in DOMAIN moveChecklists : moveChecklists[k].userId = userId})

getChecklistByEstimate(estimateId) ==
    LET K == {k \in DOMAIN moveChecklists :
                  moveChecklists[k].estimateId = estimateId}
    IN  IF K = {} THEN Undefined ELSE Some(moveChecklists[Min(K)])

createChecklistItem(insertItem) ==
    [id |-> currentChecklistItemId,
     checklistId |-> insertItem.checklistId,
     task |-> insertItem.task,
     description |-> TextOrNull(insertItem.description),
     category |-> insertItem.category,
     timeframe |-> insertItem.timeframe,
     completed |-> insertItem.completed,
     createdAt |-> now]

getChecklistItems(checklistId) ==
    ValuesOf(checklistItems,
             {k \in DOMAIN checklistItems :
                  checklistItems[k].checklistId = checklistId})

\* updateChecklistItem that can set the flag but never clear it
updateChecklistItemSticky(id, completed) ==
    IF id \in DOMAIN checklistItems
    THEN Some([checklistItems[id] EXCEPT !.completed = @ \/ completed])
    ELSE Undefined

\* updateChecklistItem that flips the flag whatever value is asked for
updateChecklistItemFlip(id, completed) ==
    IF id \in DOMAIN checklistItems
    THEN Some([checklistItems[id] EXCEPT !.completed = ~@])
    ELSE Undefined

\* updateChecklistItem that also clears the description of the item
updateChecklistItemCleared(id, completed) ==
    IF id \in DOMAIN checklistItems
    THEN Some([checklistItems[id] EXCEPT !.completed = completed,
                                        !.description = NullText])
    ELSE Undefined

\* the item updateChecklistItem returns and stores (undefined: nothing stored)
updateChecklistItem(id, completed) ==
    IF id \in DOMAIN checklistItems
    THEN Some([checklistItems[id] EXCEPT !.completed = completed])
    ELSE Undefined

(***************************************************************************)
(* generateDefaultChecklistItems: the fixed template.                      *)
(***************************************************************************)
defaultChecklistItems == <<
    [task |-> "Create a moving budget",
     description |-> "Estimate all costs involved in your move including packing supplies, movers, transportation, etc.",
     category |-> "planning", timeframe |-> "8-weeks", completed |-> FALSE],
    [task |-> "Research moving companies",
     description |-> "Get quotes from at least 3 different moving companies for comparison.",
     category |-> "planning", timeframe |-> "8-weeks", completed |-> FALSE],
    [task |-> "Create a home inventory",
     description |-> "Document all your belongings and decide what to keep, sell, donate, or discard.",
     category |-> "planning", timeframe |-> "8-weeks", completed |-> FALSE],
    [task |-> "Start packing non-essential items",
     description |-> "Begin with items you rarely use like seasonal decorations, books, and extra kitchen items.",
     category |-> "packing", timeframe |-> "4-weeks", completed |-> FALSE],
    [task |-> "Notify important parties about your move",
     description |-> "Update your address with banks, insurance companies, subscription services, etc.",
     category |-> "admin", timeframe |-> "4-weeks", completed |-> FALSE],
    [task |-> "Schedule utility disconnection and connection",
     description |-> "Arrange for utilities to be disconnected at your current home and connected at your new home.",
     category |-> "admin", timeframe |-> "4-weeks", completed |-> FALSE],
    [task |-> "Confirm moving arrangements",
     description |-> "Verify date, time, and details with your moving company or rental truck service.",
     category |-> "admin", timeframe |-> "2-weeks", completed |-> FALSE],
    [task |-> "Pack most of your belongings",
     description |-> "Leave out only essential items that you'll need in the final days.",
     category |-> "packing", timeframe |-> "2-weeks", completed |-> FALSE],
    [task |-> "Clean out the refrigerator and pantry",
     description |-> "Use up perishable food items or plan to give them away before the move.",
     category |-> "cleaning", timeframe |-> "2-weeks", completed |-> FALSE],
    [task |-> "Pack an essentials box",
     description |-> "Include items you'll need immediately upon arrival: toiletries, medications, change of clothes, basic kitchen supplies, etc.",
     category |-> "packing", timeframe |-> "1-week", completed |-> FALSE],
    [task |-> "Disassemble furniture",
     description |-> "Take apart larger furniture pieces that won't fit through doors or are easier to move disassembled.",
     category |-> "packing", timeframe |-> "1-week", completed |-> FALSE],
    [task |-> "Confirm arrival time at new residence",
     description |-> "Make sure you can access your new home when you arrive and that utilities are connected.",
     category |-> "admin", timeframe |-> "1-week", completed |-> FALSE],
    [task |-> "Conduct final walkthrough of old home",
     description |-> "Check all rooms, closets, cabinets, and storage areas to ensure nothing is left behind.",
     category |-> "moving-day", timeframe |-> "moving-day", completed |-> FALSE],
    [task |-> "Document condition of rental property",
     description |-> "Take photos of your cleaned rental property to document its condition for your deposit return.",
     category |-> "moving-day", timeframe |-> "moving-day", completed |-> FALSE],
    [task |-> "Supervise movers",
     description |-> "Be available to answer questions and direct movers throughout the loading process.",
     category |-> "moving-day", timeframe |-> "moving-day", completed |-> FALSE],
    [task |-> "Unpack essential items",
     description |-> "Focus on setting up the kitchen, bathroom, and bedroom areas first.",
     category |-> "unpacking", timeframe |-> "after-move", completed |-> FALSE],
    [task |-> "Update your address",
     description |-> "File a change of address with the post office and update your driver's license.",
     category |-> "admin", timeframe |-> "after-move", completed |-> FALSE],
    [task |-> "Meet your neighbors",
     description |-> "Introduce yourself to neighbors and begin getting familiar with the neighborhood.",
     category |-> "settling-in", timeframe |-> "after-move", completed |-> FALSE]
>>

\* the item of the template at position i, instantiated for checklistId
TemplateItem(checklistId, i) ==
    [checklistId |-> checklistId,
     task |-> defaultChecklistItems[i].task,
     description |-> defaultChecklistItems[i].description,
     category |-> defaultChecklistItems[i].category,
     timeframe |-> defaultChecklistItems[i].timeframe,
     completed |-> defaultChecklistItems[i].completed]

(***************************************************************************)
(* Requests.                                                               *)
(***************************************************************************)
IdleHandler == [op |-> "idle", pc |-> "idle"]

\* the last step sent no response
NoResponse == [op |-> "none", caller |-> Null, status |-> 0]

Idle(h) == handler[h].pc = "idle"

\* res.status(..).json(..): the handler ends
Reply(h, r) ==
    /\ response' = r
    /\ handler' = [handler EXCEPT ![h] = IdleHandler]

\* the handler is suspended at an await
Await(h, state) ==
    /\ handler' = [handler EXCEPT ![h] = state]
    /\ response' = NoResponse

\* move dates a request may carry
MoveDates == {"2025-06-01"}

\* bodies of POST /api/save-estimate
EstimateBodies ==
    {[userId |-> u, origin |-> o, destination |-> "456 Oak Ave, New York, NY",
      distance |-> 12, homeSize |-> "2bedroom", additionalItems |-> a,
      moveDate |-> "2025-06-01", flexibility |-> UndefinedText,
      services |-> Undefined, costDiy |-> 256, costHybrid |-> 818,
      costFullService |-> 1530] :
        u \in Callers,
        o \in {UndefinedText, "123 Main St, New York, NY"},
        a \in {UndefinedText, "piano"}}

\* insertMoveEstimateSchema.omit({createdAt}).parse: the required text fields
ValidEstimateBody(body) ==
    /\ body.origin # UndefinedText
    /\ body.destination # UndefinedText
    /\ body.homeSize # UndefinedText
    /\ body.moveDate # UndefinedText

\* bodies of POST /api/checklists
ChecklistBodies ==
    [userId : {Undefined} \cup {Some(u) : u \in Users},
     moveDate : MoveDates \cup {UndefinedText, ""},
     estimateId : 0..MaxEstimates]

\* insertMoveChecklistSchema.omit({createdAt}).parse: userId and moveDate are
\* required (notNull columns without a default), estimateId is optional
ValidChecklistBody(body) ==
    /\ IsDefined(body.userId)
    /\ body.moveDate # UndefinedText

(***************************************************************************)
(* GET /api/moving-estimates                                               *)
(***************************************************************************)
GetAllEstimates(h) ==
    \E caller \in Callers :
        /\ Idle(h)
        /\ Await(h, [op |-> "getAllEstimates", pc |-> "read", caller |-> caller,
                     estimates |-> getAllMoveEstimates])
        /\ UNCHANGED <<storageVars, now, progressRequests, db>>

GetAllEstimatesRespond(h) ==
    /\ handler[h].op = "getAllEstimates"
    /\ handler[h].pc = "read"
    /\ Reply(h, [op |-> "getAllEstimates", caller |-> handler[h].caller,
                 status |-> 200, estimates |-> handler[h].estimates])
    /\ UNCHANGED <<storageVars, now, progressRequests, db>>

(***************************************************************************)
(* GET /api/my-estimates                                                   *)
(***************************************************************************)
GetMyEstimates(h) ==
    \E caller \in Callers :
        /\ Idle(h)
        /\ IF caller = Null
           THEN Reply(h, [op |-> "getMyEstimates", caller |-> caller,
                          status |-> 401])
           ELSE Await(h, [op |-> "getMyEstimates", pc |-> "read",
                          caller |-> caller,
                          estimates |-> getUserEstimates(caller)])
        /\ UNCHANGED <<storageVars, now, progressRequests, db>>

GetMyEstimatesRespond(h) ==
    /\ handler[h].op = "getMyEstimates"
    /\ handler[h].pc = "read"
    /\ Reply(h, [op |-> "getMyEstimates", caller |-> handler[h].caller,
                 status |-> 200, estimates |-> handler[h].estimates])
    /\ UNCHANGED <<storageVars, now, progressRequests, db>>

\* { ...validatedData, userId }
EstimateWithUser(validatedData, userId) ==
    [validatedData EXCEPT !.userId = userId]

(***************************************************************************)
(* POST /api/save-estimate                                                 *)
(***************************************************************************)
SaveEstimateUpTo(h, maxEstimates) ==
    \E caller \in Callers, body \in EstimateBodies :
        /\ Idle(h)
        /\ IF caller = Null
           THEN /\ Reply(h, [op |-> "saveEstimate", caller |-> caller,
                             status |-> 401])
                /\ UNCHANGED storageVars
           ELSE IF ~ValidEstimateBody(body)
           THEN /\ Reply(h, [op |-> "saveEstimate", caller |-> caller,
                             status |-> 400])
                /\ UNCHANGED storageVars
           ELSE LET estimateWithUser == EstimateWithUser(body, caller)
                    estimate == createMoveEstimate(estimateWithUser)
                IN  /\ currentEstimateId <= maxEstimates
                    /\ moveEstimates' = MapSet(moveEstimates, estimate.id, estimate)
                    /\ currentEstimateId' = currentEstimateId + 1
                    /\ Await(h, [op |-> "saveEstimate", pc |-> "created",
                                 caller |-> caller, estimate |-> estimate])
                    /\ UNCHANGED <<checklistVars, progressVars>>
        /\ UNCHANGED <<now, progressRequests, db>>

SaveEstimate(h) == SaveEstimateUpTo(h, MaxEstimates)

SaveEstimateRespond(h) ==
    /\ handler[h].op = "saveEstimate"
    /\ handler[h].pc = "created"
    /\ Reply(h, [op |-> "saveEstimate", caller |-> handler[h].caller,
                 status |-> 201, estimate |-> handler[h].estimate])
    /\ UNCHANGED <<storageVars, now, progressRequests, db>>

\* the checklist stored with the userId the body carries
ChecklistWithBodyUser(validatedData, userId) ==
    [moveDate |-> validatedData.moveDate,
     estimateId |-> NumberOrNull(validatedData.estimateId),
     userId |-> validatedData.userId[1]]

\* { moveDate: validatedData.moveDate,
\*   estimateId: validatedData.estimateId || null, userId }
ChecklistWithUser(validatedData, userId) ==
    [moveDate |-> validatedData.moveDate,
     estimateId |-> NumberOrNull(validatedData.estimateId),
     userId |-> userId]

(***************************************************************************)
(* POST /api/checklists                                                    *)
(***************************************************************************)
\* the handler up to its first await; it creates a checklist while fewer than
\* maxChecklists have been created
CreateChecklistUpTo(h, maxChecklists) ==
    \E caller \in Callers, body \in ChecklistBodies :
        /\ Idle(h)
        /\ IF caller = Null
           THEN /\ Reply(h, [op |-> "createChecklist", caller |-> caller,
                             status |-> 401])
                /\ UNCHANGED storageVars
           ELSE IF ~ValidChecklistBody(body) \/ body.moveDate = ""
           THEN /\ Reply(h, [op |-> "createChecklist", caller |-> caller,
                             status |-> 400])
                /\ UNCHANGED storageVars
           ELSE LET checklistWithUser == ChecklistWithUser(body, caller)
                    checklist == createMoveChecklist(checklistWithUser)
                IN  /\ currentChecklistId <= maxChecklists
                    \* the model follows one generation of items at a time
                    /\ \A g \in Handlers : handler[g].op # "createChecklist"
                    /\ moveChecklists' =
                           MapSet(moveChecklists, checklist.id, checklist)
                    /\ currentChecklistId' = currentChecklistId + 1
                    /\ Await(h, [op |-> "createChecklist", pc |-> "generate",
                                 caller |-> caller, checklist |-> checklist,
                                 created |-> 0])
                    /\ UNCHANGED <<estimateVars, progressVars, checklistItems,
                                   currentChecklistItemId>>
        /\ UNCHANGED <<now, progressRequests, db>>

CreateChecklist(h) == CreateChecklistUpTo(h, MaxChecklists)

\* generateDefaultChecklistItems: one pass of the loop, up to its await
GenerateChecklistItem(h) ==
    /\ handler[h].op = "createChecklist"
    /\ handler[h].pc = "generate"
    /\ handler[h].created < Len(defaultChecklistItems)
    /\ LET item == createChecklistItem(
                       TemplateItem(handler[h].checklist.id,
                                    handler[h].created + 1))
       IN  /\ checklistItems' = MapSet(checklistItems, item.id, item)
           /\ currentChecklistItemId' = currentChecklistItemId + 1
    /\ Await(h, [handler[h] EXCEPT !.created = @ + 1])
    /\ UNCHANGED <<estimateVars, progressVars, moveChecklists,
                   currentChecklistId, now, progressRequests, db>>

\* generateDefaultChecklistItems: the promise of storage.createChecklistItem is
\* rejected (the storage could not insert); nothing is stored, the loop is left
\* and the catch of the route answers 500
GenerateChecklistItemFails(h) ==
    /\ handler[h].op = "createChecklist"
    /\ handler[h].pc = "generate"
    /\ handler[h].created < Len(defaultChecklistItems)
    /\ Reply(h, [op |-> "createChecklist", caller |-> handler[h].caller,
                 status |-> 500])
    /\ UNCHANGED <<storageVars, now, progressRequests, db>>

\* the loop has ended: storage.getChecklistItems(checklist.id)
CreateChecklistReadItems(h) ==
    /\ handler[h].op = "createChecklist"
    /\ handler[h].pc = "generate"
    /\ handler[h].created = Len(defaultChecklistItems)
    /\ Await(h, [op |-> "createChecklist", pc |-> "read",
                 caller |-> handler[h].caller,
                 checklist |-> handler[h].checklist,
                 items |-> getChecklistItems(handler[h].checklist.id)])
    /\ UNCHANGED <<storageVars, now, progressRequests, db>>

CreateChecklistRespond(h) ==
    /\ handler[h].op = "createChecklist"
    /\ handler[h].pc = "read"
    /\ Reply(h, [op |-> "createChecklist", caller |-> handler[h].caller,
                 status |-> 201, checklist |-> handler[h].checklist,
                 items |-> handler[h].items])
    /\ UNCHANGED <<storageVars, now, progressRequests, db>>

(***************************************************************************)
(* GET /api/checklists                                                     *)
(***************************************************************************)
GetChecklists(h) ==
    \E caller \in Callers :
        /\ Idle(h)
        /\ IF caller = Null
           THEN Reply(h, [op |-> "getChecklists", caller |-> caller,
                          status |-> 401])
           ELSE Await(h, [op |-> "getChecklists", pc |-> "read",
                          caller |-> caller,
                          checklists |-> getUserChecklists(caller)])
        /\ UNCHANGED <<storageVars, now, progressRequests, db>>

GetChecklistsRespond(h) ==
    /\ handler[h].op = "getChecklists"
    /\ handler[h].pc = "read"
    /\ Reply(h, [op |-> "getChecklists", caller |-> handler[h].caller,
                 status |-> 200, checklists |-> handler[h].checklists])
    /\ UNCHANGED <<storageVars, now, progressRequests, db>>

(***************************************************************************)
(* GET /api/checklists/:id and GET /api/estimates/:id/checklist            *)
(***************************************************************************)
\* the ownership check left out
NotOwnerSkipped(checklist, caller) == FALSE

\* checklist.userId !== req.user.id
NotOwner(checklist, caller) == checklist.userId # caller

\* the handler up to its first storage call; found is what the call returns
ChecklistLookup(h, op, caller, id, found) ==
    /\ Idle(h)
    /\ IF caller = Null
       THEN Reply(h, [op |-> op, caller |-> caller, id |-> id, status |-> 401])
       ELSE Await(h, [op |-> op, pc |-> "lookup", caller |-> caller,
                      id |-> id, checklist |-> found])
    /\ UNCHANGED <<storageVars, now, progressRequests, db>>

\* after the lookup: 404, 403, or storage.getChecklistItems
ChecklistCheck(h, op) ==
    /\ handler[h].op = op
    /\ handler[h].pc = "lookup"
    /\ LET r == handler[h]
       IN  IF ~IsDefined(r.checklist)
           THEN Reply(h, [op |-> op, caller |-> r.caller, id |-> r.id,
                          status |-> 404])
           ELSE IF NotOwner(r.checklist[1], r.caller)
           THEN Reply(h, [op |-> op, caller |-> r.caller, id |-> r.id,
                          status |-> 403])
           ELSE Await(h, [op |-> op, pc |-> "items", caller |-> r.caller,
                          id |-> r.id, checklist |-> r.checklist,
                          items |-> getChecklistItems(r.checklist[1].id)])
    /\ UNCHANGED <<storageVars, now, progressRequests, db>>

ChecklistRespond(h, op) ==
    /\ handler[h].op = op
    /\ handler[h].pc = "items"
    /\ Reply(h, [op |-> op, caller |-> handler[h].caller, id |-> handler[h].id,
                 status |-> 200, checklist |-> handler[h].checklist[1],
                 items |-> handler[h].items])
    /\ UNCHANGED <<storageVars, now, progressRequests, db>>

GetChecklist(h) ==
    \E caller \in Callers, id \in 1..(MaxChecklists + 1) :
        ChecklistLookup(h, "getChecklist", caller, id, getMoveChecklist(id))

GetChecklistCheck(h) == ChecklistCheck(h, "getChecklist")

GetChecklistRespond(h) == ChecklistRespond(h, "getChecklist")

GetEstimateChecklist(h) ==
    \E caller \in Callers, estimateId \in 1..MaxEstimates :
        ChecklistLookup(h, "getEstimateChecklist", caller, estimateId,
                        getChecklistByEstimate(estimateId))

GetEstimateChecklistCheck(h) == ChecklistCheck(h, "getEstimateChecklist")

GetEstimateChecklistRespond(h) == ChecklistRespond(h, "getEstimateChecklist")

(***************************************************************************)
(* PATCH /api/checklist-items/:id                                          *)
(***************************************************************************)
\* typeof completed, for the values a body may carry in `completed`
CompletedTypes == {"boolean", "string", "undefined"}

\* the toggle with the type of `completed` checked after the storage call
UpdateChecklistItemLate(h) ==
    \E caller \in Callers, itemId \in 1..MaxItemInput,
       typeofCompleted \in CompletedTypes, completed \in BOOLEAN :
        /\ Idle(h)
        /\ IF caller = Null
           THEN /\ Reply(h, [op |-> "updateChecklistItem", caller |-> caller,
                             id |-> itemId, status |-> 401])
                /\ UNCHANGED checklistItems
           ELSE LET updatedItem == updateChecklistItem(itemId, completed)
                IN  /\ checklistItems' =
                           IF IsDefined(updatedItem)
                           THEN MapSet(checklistItems, itemId, updatedItem[1])
                           ELSE checklistItems
                    /\ IF typeofCompleted # "boolean"
                       THEN Reply(h, [op |-> "updateChecklistItem",
                                      caller |-> caller, id |-> itemId,
                                      status |-> 400])
                       ELSE Await(h, [op |-> "updateChecklistItem",
                                      pc |-> "updated", caller |-> caller,
                                      id |-> itemId, completed |-> completed,
                                      updatedItem |-> updatedItem])
        /\ UNCHANGED <<estimateVars, progressVars, moveChecklists,
                       currentChecklistId, currentChecklistItemId, now,
                       progressRequests, db>>

\* completed is the value of the body when its type is boolean
UpdateChecklistItem(h) ==
    \E caller \in Callers, itemId \in 1..MaxItemInput,
       typeofCompleted \in CompletedTypes, completed \in BOOLEAN :
        /\ Idle(h)
        /\ IF caller = Null
           THEN /\ Reply(h, [op |-> "updateChecklistItem", caller |-> caller,
                             id |-> itemId, status |-> 401])
                /\ UNCHANGED checklistItems
           ELSE IF typeofCompleted # "boolean"
           THEN /\ Reply(h, [op |-> "updateChecklistItem", caller |-> caller,
                             id |-> itemId, status |-> 400])
                /\ UNCHANGED checklistItems
           ELSE LET updatedItem == updateChecklistItem(itemId, completed)
                IN  /\ checklistItems' =
                           IF IsDefined(updatedItem)
                           THEN MapSet(checklistItems, itemId, updatedItem[1])
                           ELSE checklistItems
                    /\ Await(h, [op |-> "updateChecklistItem", pc |-> "updated",
                                 caller |-> caller, id |-> itemId,
                                 completed |-> completed,
                                 updatedItem |-> updatedItem])
        /\ UNCHANGED <<estimateVars, progressVars, moveChecklists,
                       currentChecklistId, currentChecklistItemId, now,
                       progressRequests, db>>

UpdateChecklistItemRespond(h) ==
    /\ handler[h].op = "updateChecklistItem"
    /\ handler[h].pc = "updated"
    /\ LET r == handler[h]
       IN  IF ~IsDefined(r.updatedItem)
           THEN Reply(h, [op |-> "updateChecklistItem", caller |-> r.caller,
                          id |-> r.id, status |-> 404])
           ELSE Reply(h, [op |-> "updateChecklistItem", caller |-> r.caller,
                          id |-> r.id, status |-> 200,
                          item |-> r.updatedItem[1]])
    /\ UNCHANGED <<storageVars, now, progressRequests, db>>

(***************************************************************************)
(* MemStorage: user progress.                                              *)
(***************************************************************************)
getUserProgress(userId) ==
    LET K == {k \in DOMAIN userProgressMap :
                  userProgressMap[k].userId = userId}
    IN  IF K = {} THEN Undefined ELSE Some(userProgressMap[Min(K)])

\* every field of insertProgress is defined by the three callers
createUserProgress(insertProgress) ==
    [id |-> currentProgressId,
     userId |-> insertProgress.userId,
     points |-> insertProgress.points,
     level |-> insertProgress.level,
     achievements |-> insertProgress.achievements,
     streak |-> insertProgress.streak,
     lastInteraction |-> insertProgress.lastInteraction,
     createdAt |-> now]

\* a field of a partial update: the value given, or else the stored one
Spread(stored, given) == IF IsDefined(given) THEN given[1] ELSE stored

\* { ...progress, ...progressUpdate,
\*   achievements: progressUpdate.achievements || progress.achievements }
\* (an array, even an empty one, is truthy)
MergeProgress(progress, progressUpdate) ==
    [id |-> progress.id,
     userId |-> progress.userId,
     points |-> Spread(progress.points, progressUpdate.points),
     level |-> Spread(progress.level, progressUpdate.level),
     achievements |-> Spread(progress.achievements, progressUpdate.achievements),
     streak |-> Spread(progress.streak, progressUpdate.streak),
     lastInteraction |->
         Spread(progress.lastInteraction, progressUpdate.lastInteraction),
     createdAt |-> progress.createdAt]

\* the record updateUserProgress stores and returns (undefined: none stored)
updateUserProgress(userId, progressUpdate) ==
    LET progress == getUserProgress(userId)
    IN  IF ~IsDefined(progress) THEN Undefined
        ELSE Some(MergeProgress(progress[1], progressUpdate))

\* userProgressMap after updateUserProgress returned `updated`
StoreUpdated(updated) ==
    IF IsDefined(updated)
    THEN MapSet(userProgressMap, updated[1].id, updated[1])
    ELSE userProgressMap

(***************************************************************************)
(* Requests of the progress routes.                                        *)
(***************************************************************************)
ProgressCallers == (1..NumProgressUsers) \cup {Null}

AchievementIds == {"first_estimate", "first_checklist"}

\* the points a request may claim (any integer; `points` may be absent)
PointsInputs == {Undefined, Some(15), Some(150), Some(0 - 50)}

\* a partial update with no field
NoUpdate ==
    [points |-> Undefined, level |-> Undefined, achievements |-> Undefined,
     streak |-> Undefined, lastInteraction |-> Undefined]

\* bodies of PATCH /api/user-progress that pass the schema
ProgressBodies ==
    {NoUpdate}
    \cup {[NoUpdate EXCEPT !.points = Some(p)] : p \in {0, 15}}
    \cup {[NoUpdate EXCEPT !.level = Some(3)]}
    \cup {[NoUpdate EXCEPT !.achievements = Some(a)] :
              a \in {<<>>, <<"first_estimate", "first_estimate">>}}
    \cup {[NoUpdate EXCEPT !.streak = Some(1)]}
    \cup {[NoUpdate EXCEPT !.lastInteraction = Some(0)]}

\* x || d on a number
NumberOr(opt, d) == IF IsDefined(opt) /\ opt[1] # 0 THEN opt[1] ELSE d
\* x || d on an array
ArrayOr(opt, d) == IF IsDefined(opt) THEN opt[1] ELSE d

AcceptProgressRequest ==
    /\ progressRequests < MaxProgressRequests
    /\ progressRequests' = progressRequests + 1
    /\ UNCHANGED db

(***************************************************************************)
(* GET /api/user-progress                                                  *)
(***************************************************************************)
GetUserProgress(h) ==
    \E caller \in ProgressCallers :
        /\ Idle(h)
        /\ AcceptProgressRequest
        /\ IF caller = Null
           THEN Reply(h, [op |-> "getUserProgress", caller |-> caller,
                          status |-> 401])
           ELSE Await(h, [op |-> "getUserProgress", pc |-> "read",
                          caller |-> caller,
                          progress |-> getUserProgress(caller)])
        /\ UNCHANGED <<storageVars, now>>

\* after the read: the record is sent, or created first
GetUserProgressCreate(h) ==
    /\ handler[h].op = "getUserProgress"
    /\ handler[h].pc = "read"
    /\ LET r == handler[h]
           progress == createUserProgress(
               [userId |-> r.caller, points |-> 0, level |-> 1,
                achievements |-> <<>>, streak |-> 0, lastInteraction |-> now])
       IN  IF IsDefined(r.progress)
           THEN /\ Reply(h, [op |-> "getUserProgress", caller |-> r.caller,
                             status |-> 200, progress |-> r.progress[1]])
                /\ UNCHANGED progressVars
           ELSE /\ userProgressMap' =
                       MapSet(userProgressMap, progress.id, progress)
                /\ currentProgressId' = currentProgressId + 1
                /\ Await(h, [op |-> "getUserProgress", pc |-> "created",
                             caller |-> r.caller, progress |-> Some(progress)])
    /\ UNCHANGED <<estimateVars, checklistVars, now, progressRequests, db>>

GetUserProgressRespond(h) ==
    /\ handler[h].op = "getUserProgress"
    /\ handler[h].pc = "created"
    /\ Reply(h, [op |-> "getUserProgress", caller |-> handler[h].caller,
                 status |-> 200, progress |-> handler[h].progress[1]])
    /\ UNCHANGED <<storageVars, now, progressRequests, db>>

(***************************************************************************)
(* PATCH /api/user-progress                                                *)
(***************************************************************************)
\* wellTyped: every field of the body passes insertUserProgressSchema.partial()
PatchUserProgress(h) ==
    \E caller \in ProgressCallers, body \in ProgressBodies,
       wellTyped \in BOOLEAN :
        /\ Idle(h)
        /\ AcceptProgressRequest
        /\ IF caller = Null
           THEN Reply(h, [op |-> "patchUserProgress", caller |-> caller,
                          status |-> 401])
           ELSE IF ~wellTyped
           THEN Reply(h, [op |-> "patchUserProgress", caller |-> caller,
                          status |-> 400])
           ELSE Await(h, [op |-> "patchUserProgress", pc |-> "read",
                          caller |-> caller, validatedData |-> body,
                          progress |-> getUserProgress(caller)])
        /\ UNCHANGED <<storageVars, now>>

\* after the read: createUserProgress or updateUserProgress
PatchUserProgressWrite(h) ==
    /\ handler[h].op = "patchUserProgress"
    /\ handler[h].pc = "read"
    /\ LET r == handler[h]
           v == r.validatedData
           created == createUserProgress(
               [userId |-> r.caller,
                points |-> NumberOr(v.points, 0),
                level |-> NumberOr(v.level, 1),
                achievements |-> ArrayOr(v.achievements, <<>>),
                streak |-> NumberOr(v.streak, 0),
                lastInteraction |->
                    IF IsDefined(v.lastInteraction)
                    THEN v.lastInteraction[1] ELSE now])
           updated == updateUserProgress(r.caller, v)
       IN  IF ~IsDefined(r.progress)
           THEN /\ userProgressMap' =
                       MapSet(userProgressMap, created.id, created)
                /\ currentProgressId' = currentProgressId + 1
                /\ Await(h, [op |-> "patchUserProgress", pc |-> "written",
                             caller |-> r.caller, progress |-> Some(created)])
           ELSE /\ userProgressMap' = StoreUpdated(updated)
                /\ UNCHANGED currentProgressId
                /\ Await(h, [op |-> "patchUserProgress", pc |-> "written",
                             caller |-> r.caller, progress |-> updated])
    /\ UNCHANGED <<estimateVars, checklistVars, now, progressRequests, db>>

PatchUserProgressRespond(h) ==
    /\ handler[h].op = "patchUserProgress"
    /\ handler[h].pc = "written"
    /\ LET r == handler[h]
       IN  IF ~IsDefined(r.progress)
           THEN Reply(h, [op |-> "patchUserProgress", caller |-> r.caller,
                          status |-> 404])
           ELSE Reply(h, [op |-> "patchUserProgress", caller |-> r.caller,
                          status |-> 200, progress |-> r.progress[1]])
    /\ UNCHANGED <<storageVars, now, progressRequests, db>>

(***************************************************************************)
(* POST /api/unlock-achievement                                            *)
(***************************************************************************)
\* the check for an achievement already unlocked left out
AlreadyUnlockedSkipped(progress, achievementId) == FALSE

\* progress.achievements.includes(achievementId)
AlreadyUnlocked(progress, achievementId) ==
    Includes(progress.achievements, achievementId)

\* Math.floor(updatedPoints / 100) + 1
LevelOf(points) == (points \div 100) + 1

\* the update an unlock sends to updateUserProgress
UnlockUpdate(progress, achievementId, points) ==
    LET updatedAchievements == Append(progress.achievements, achievementId)
        updatedPoints == progress.points + NumberOr(points, 0)
        updatedLevel == LevelOf(updatedPoints)
    IN  [points |-> Some(updatedPoints), level |-> Some(updatedLevel),
         achievements |-> Some(updatedAchievements), streak |-> Undefined,
         lastInteraction |-> Some(now)]

\* achievementId is UndefinedText when the body has none
UnlockAchievement(h) ==
    \E caller \in ProgressCallers,
       achievementId \in AchievementIds \cup {UndefinedText, ""},
       points \in PointsInputs :
        /\ Idle(h)
        /\ AcceptProgressRequest
        /\ IF caller = Null
           THEN Reply(h, [op |-> "unlockAchievement", caller |-> caller,
                          status |-> 401])
           ELSE IF achievementId \in {UndefinedText, ""}
           THEN Reply(h, [op |-> "unlockAchievement", caller |-> caller,
                          status |-> 400])
           ELSE Await(h, [op |-> "unlockAchievement", pc |-> "read",
                          caller |-> caller, achievementId |-> achievementId,
                          points |-> points,
                          progress |-> getUserProgress(caller)])
        /\ UNCHANGED <<storageVars, now>>

\* after the read: create, or "already unlocked", or update
UnlockAchievementWrite(h) ==
    /\ handler[h].op = "unlockAchievement"
    /\ handler[h].pc = "read"
    /\ LET r == handler[h]
           created == createUserProgress(
               [userId |-> r.caller, points |-> NumberOr(r.points, 0),
                level |-> 1, achievements |-> <<r.achievementId>>,
                streak |-> 0, lastInteraction |-> now])
           updated == updateUserProgress(
               r.caller, UnlockUpdate(r.progress[1], r.achievementId, r.points))
           written(p) == [op |-> "unlockAchievement", pc |-> "written",
                          caller |-> r.caller,
                          achievementId |-> r.achievementId,
                          points |-> r.points, before |-> r.progress,
                          progress |-> p]
       IN  IF ~IsDefined(r.progress)
           THEN /\ userProgressMap' =
                       MapSet(userProgressMap, created.id, created)
                /\ currentProgressId' = currentProgressId + 1
                /\ Await(h, written(Some(created)))
           ELSE IF AlreadyUnlocked(r.progress[1], r.achievementId)
           THEN /\ Reply(h, [op |-> "unlockAchievement", caller |-> r.caller,
                             achievementId |-> r.achievementId,
                             status |-> 200, success |-> FALSE,
                             progress |-> r.progress[1]])
                /\ UNCHANGED progressVars
           ELSE /\ userProgressMap' = StoreUpdated(updated)
                /\ UNCHANGED currentProgressId
                /\ Await(h, written(updated))
    /\ UNCHANGED <<estimateVars, checklistVars, now, progressRequests, db>>

UnlockAchievementRespond(h) ==
    /\ handler[h].op = "unlockAchievement"
    /\ handler[h].pc = "written"
    /\ LET r == handler[h]
       IN  IF ~IsDefined(r.progress)
           THEN Reply(h, [op |-> "unlockAchievement", caller |-> r.caller,
                          achievementId |-> r.achievementId, status |-> 404])
           ELSE Reply(h, [op |-> "unlockAchievement", caller |-> r.caller,
                          achievementId |-> r.achievementId,
                          status |-> 200, success |-> TRUE,
                          progress |-> r.progress[1]])
    /\ UNCHANGED <<storageVars, now, progressRequests, db>>

(***************************************************************************)
(* calculateDistance.  An address is the sequence of its characters.       *)
(***************************************************************************)
UpperCase == <<"A", "B", "C", "D", "E", "F", "G", "H", "I", "J", "K", "L", "M",
               "N", "O", "P", "Q", "R", "S", "T", "U", "V", "W", "X", "Y", "Z">>
LowerCase == <<"a", "b", "c", "d", "e", "f", "g", "h", "i", "j", "k", "l", "m",
               "n", "o", "p", "q", "r", "s", "t", "u", "v", "w", "x", "y", "z">>

\* String.prototype.toLowerCase
toLowerCase(s) ==
    [i \in 1..Len(s) |->
        IF \E j \in 1..Len(UpperCase) : UpperCase[j] = s[i]
        THEN LowerCase[CHOOSE j \in 1..Len(UpperCase) : UpperCase[j] = s[i]]
        ELSE s[i]]

\* String.prototype.split(',')
RECURSIVE split(_)
split(s) ==
    IF \A i \in 1..Len(s) : s[i] # ","
    THEN <<s>>
    ELSE LET i == Min({j \in 1..Len(s) : s[j] = ","})
         IN  <<SubSeq(s, 1, i - 1)>> \o split(SubSeq(s, i + 1, Len(s)))

\* String.prototype.trim
RECURSIVE trim(_)
trim(s) ==
    IF s # <<>> /\ s[1] = " " THEN trim(Tail(s))
    ELSE IF s # <<>> /\ s[Len(s)] = " " THEN trim(SubSeq(s, 1, Len(s) - 1))
    ELSE s

\* address.toLowerCase().split(',').map(p => p.trim())
AddressParts(address) ==
    LET parts == split(toLowerCase(address))
    IN  [i \in 1..Len(parts) |-> trim(parts[i])]

\* Math.random() * n rounded up, not down
RandomUpTo(random, n) == (random * n + RandomResolution - 1) \div RandomResolution

\* Math.random() returns random / RandomResolution, random in
\* 0..RandomResolution - 1; this is Math.floor(Math.random() * n)
RandomBelow(random, n) == (random * n) \div RandomResolution

calculateDistance(origin, destination, random) ==
    LET originParts == AddressParts(origin)
        destParts == AddressParts(destination)
        sameCity == \E i \in 1..Len(originParts) :
                        Includes(destParts, originParts[i])
        originState == IF Len(originParts) > 1
                       THEN originParts[Len(originParts)] ELSE <<>>
        destState == IF Len(destParts) > 1
                     THEN destParts[Len(destParts)] ELSE <<>>
    IN  IF sameCity
        THEN RandomBelow(random, 20) + 5
        ELSE IF originState = destState /\ originState # <<>>
        THEN RandomBelow(random, 175) + 25
        ELSE RandomBelow(random, 2800) + 200

(***************************************************************************)
(* calculateMovingCosts and its tables.                                    *)
(***************************************************************************)
HomeSizes == {"studio", "1bedroom", "2bedroom", "3bedroom"}
AdditionalItems == {"none", "piano", "artwork", "gym", "multiple"}
Services == {"packing", "storage", "cleaning"}

BASE_COSTS ==
    [homeSize \in HomeSizes |->
        CASE homeSize = "studio" ->
                 [diy |-> 150, hybrid |-> 500, fullService |-> 900]
          [] homeSize = "1bedroom" ->
                 [diy |-> 200, hybrid |-> 650, fullService |-> 1200]
          [] homeSize = "2bedroom" ->
                 [diy |-> 250, hybrid |-> 800, fullService |-> 1500]
          [] homeSize = "3bedroom" ->
                 [diy |-> 300, hybrid |-> 950, fullService |-> 1800]]

\* the costs per mile, in tenths of a dollar: 0.5, 1.5 and 2.5
COST_PER_MILE == [diy |-> 5, hybrid |-> 15, fullService |-> 25]

ADDITIONAL_ITEM_COSTS ==
    [item \in AdditionalItems |->
        CASE item = "none" -> [diy |-> 0, hybrid |-> 0, fullService |-> 0]
          [] item = "piano" ->
                 [diy |-> 100, hybrid |-> 200, fullService |-> 300]
          [] item = "artwork" ->
                 [diy |-> 50, hybrid |-> 100, fullService |-> 200]
          [] item = "gym" -> [diy |-> 75, hybrid |-> 150, fullService |-> 250]
          [] item = "multiple" ->
                 [diy |-> 150, hybrid |-> 300, fullService |-> 400]]

\* Math.floor in the place of Math.round
MathFloor(numerator, denominator) == numerator \div denominator

\* Math.round(numerator / denominator) of a fraction that is not negative:
\* the nearest integer, a half rounded up
MathRound(numerator, denominator) ==
    (2 * numerator + denominator) \div (2 * denominator)

\* the cost of the miles alone, the base cost forgotten
DistanceCostOfMiles(homeSize, tier, distance) ==
    MathRound(distance * COST_PER_MILE[tier], 10)

\* Math.round(baseCosts[tier] + distance * COST_PER_MILE[tier])
DistanceCost(homeSize, tier, distance) ==
    MathRound(BASE_COSTS[homeSize][tier] * 10 + distance * COST_PER_MILE[tier],
              10)

\* one pass of the forEach of calculateServicesCost: the switch
ServiceCost(service) ==
    CASE service = "packing" -> [diy |-> 100, hybrid |-> 200, fullService |-> 0]
      [] service = "storage" ->
             [diy |-> 150, hybrid |-> 150, fullService |-> 150]
      [] service = "cleaning" ->
             [diy |-> 200, hybrid |-> 200, fullService |-> 200]
      [] OTHER -> [diy |-> 0, hybrid |-> 0, fullService |-> 0]

RECURSIVE calculateServicesCost(_)
calculateServicesCost(services) ==
    IF services = <<>>
    THEN [diy |-> 0, hybrid |-> 0, fullService |-> 0]
    ELSE LET costs == calculateServicesCost(SubSeq(services, 1,
                                                    Len(services) - 1))
             cost == ServiceCost(services[Len(services)])
         IN  [diy |-> costs.diy + cost.diy,
              hybrid |-> costs.hybrid + cost.hybrid,
              fullService |-> costs.fullService + cost.fullService]

\* the companies of the result are left out: no state and no other field of
\* the result depends on them
calculateMovingCosts(data, random) ==
    LET distance == calculateDistance(data.origin, data.destination, random)
        costDiy == DistanceCost(data.homeSize, "diy", distance)
        costHybrid == DistanceCost(data.homeSize, "hybrid", distance)
        costFullService == DistanceCost(data.homeSize, "fullService", distance)
        additionalCosts == ADDITIONAL_ITEM_COSTS[data.additionalItems]
        diy == costDiy + additionalCosts.diy
        hybrid == costHybrid + additionalCosts.hybrid
        fullService == costFullService + additionalCosts.fullService
        servicesCost == calculateServicesCost(data.services)
        totalCost == hybrid
    IN  [distance |-> distance,
         origin |-> data.origin,
         destination |-> data.destination,
         homeSize |-> data.homeSize,
         moveDate |-> data.moveDate,
         costs |-> [diy |-> diy + servicesCost.diy,
                    hybrid |-> hybrid + servicesCost.hybrid,
                    fullService |-> fullService + servicesCost.fullService],
         breakdown |-> [transportation |-> MathRound(totalCost * 45, 100),
                        labor |-> MathRound(totalCost * 30, 100),
                        materials |-> MathRound(totalCost * 15, 100),
                        other |-> MathRound(totalCost * 10, 100)]]

(***************************************************************************)
(* POST /api/calculate-moving-costs                                        *)
(***************************************************************************)
\* the addresses of the cost requests: a short one, and three that pass
ShortAddress == <<"n", "y">>
HomeAddress == <<"1", " ", "A", ",", "n", "y">>
NearAddress == <<"2", " ", "B", ",", " ", "N", "Y">>
FarAddress == <<"3", " ", "C", ",", "l", "a">>

\* the lists of at most n services
RECURSIVE ServiceLists(_)
ServiceLists(n) ==
    IF n = 0 THEN {<<>>}
    ELSE ServiceLists(n - 1)
         \cup {Append(s, x) : s \in ServiceLists(n - 1), x \in Services}

\* bodies of POST /api/calculate-moving-costs that pass the schema
WellFormedCalculationBodies ==
    [origin : {HomeAddress},
     destination : {NearAddress, FarAddress},
     homeSize : HomeSizes,
     additionalItems : AdditionalItems \cup {UndefinedText},
     moveDate : MoveDates,
     flexibility : {UndefinedText},
     services : {Undefined} \cup {Some(s) : s \in ServiceLists(MaxServices)}]

\* bodies of POST /api/calculate-moving-costs: also some the schema refuses
CalculationBodies ==
    {[origin |-> HomeAddress, destination |-> d, homeSize |-> s,
      additionalItems |-> "piano", moveDate |-> "2025-06-01",
      flexibility |-> UndefinedText, services |-> Some(<<"packing">>)] :
         <<d, s>> \in {<<ShortAddress, "studio">>,
                       <<FarAddress, UndefinedText>>}}
    \cup WellFormedCalculationBodies

\* moveCalculationRequestSchema.parse accepts the body
ValidCalculationBody(body) ==
    /\ Len(body.origin) >= MinAddressLength
    /\ Len(body.destination) >= MinAddressLength
    /\ body.homeSize \in HomeSizes
    /\ body.additionalItems \in AdditionalItems \cup {UndefinedText}
    /\ body.moveDate \notin {UndefinedText, ""}
    /\ body.flexibility \in
           {"exact", "1-2days", "1week", "flexible", UndefinedText}
    /\ IsDefined(body.services) =>
           \A i \in 1..Len(body.services[1]) : body.services[1][i] \in Services

\* the bodies moveCalculationRequestSchema.parse throws a ZodError for; the
\* reply to one does not depend on which it is
RefusedCalculationBodies ==
    {body \in CalculationBodies : ~ValidCalculationBody(body)}

\* what moveCalculationRequestSchema.parse returns: the defaults filled in
ParseCalculation(body) ==
    [origin |-> body.origin,
     destination |-> body.destination,
     homeSize |-> body.homeSize,
     additionalItems |-> IF body.additionalItems = UndefinedText
                         THEN "none" ELSE body.additionalItems,
     moveDate |-> body.moveDate,
     flexibility |-> IF body.flexibility = UndefinedText
                     THEN "exact" ELSE body.flexibility,
     services |-> ArrayOr(body.services, <<>>)]

\* the bodies moveCalculationRequestSchema.parse returns data for
AcceptedCalculationBodies ==
    {body \in CalculationBodies : ValidCalculationBody(body)}

\* the handler up to its first await, for a request whose body is one of
\* refused or one of accepted, and a value of Math.random() out of randoms
CalculateRequest(h, callers, refused, accepted, randoms, maxEstimates) ==
    \E caller \in callers :
        /\ Idle(h)
        /\ \/ /\ refused # {}
              /\ Reply(h, [op |-> "calculate", caller |-> caller,
                           status |-> 400])
           \/ /\ currentEstimateId <= maxEstimates
              \* the model follows one calculation at a time
              /\ \A g \in Handlers : handler[g].op # "calculate"
              /\ \E body \in accepted, random \in randoms :
                     LET data == ParseCalculation(body)
                     IN  Await(h, [op |-> "calculate", pc |-> "calculated",
                                   caller |-> caller, data |-> data,
                                   calculationResult |->
                                       calculateMovingCosts(data, random)])
        /\ UNCHANGED <<storageVars, now, progressRequests, db>>

CalculateMovingCosts(h) ==
    CalculateRequest(h, {Null}, RefusedCalculationBodies,
                     AcceptedCalculationBodies, 0..(RandomResolution - 1),
                     MaxEstimates)

\* storage.createMoveEstimate({...}): no userId is given
\* the estimate of a calculation stored for a user
CalculationEstimateOwned(data, calculationResult) ==
    [userId |-> Min(Users),
     origin |-> data.origin,
     destination |-> data.destination,
     distance |-> calculationResult.distance,
     homeSize |-> data.homeSize,
     additionalItems |-> data.additionalItems,
     moveDate |-> data.moveDate,
     flexibility |-> data.flexibility,
     services |-> Some(data.services),
     costDiy |-> calculationResult.costs.diy,
     costHybrid |-> calculationResult.costs.hybrid,
     costFullService |-> calculationResult.costs.fullService]

\* the estimate the route stores: it names no userId
CalculationEstimate(data, calculationResult) ==
    [userId |-> Null,
     origin |-> data.origin,
     destination |-> data.destination,
     distance |-> calculationResult.distance,
     homeSize |-> data.homeSize,
     additionalItems |-> data.additionalItems,
     moveDate |-> data.moveDate,
     flexibility |-> data.flexibility,
     services |-> Some(data.services),
     costDiy |-> calculationResult.costs.diy,
     costHybrid |-> calculationResult.costs.hybrid,
     costFullService |-> calculationResult.costs.fullService]

CalculateSave(h) ==
    /\ handler[h].op = "calculate"
    /\ handler[h].pc = "calculated"
    /\ LET estimate ==
               createMoveEstimate(
                   CalculationEstimate(handler[h].data,
                                       handler[h].calculationResult))
       IN  /\ moveEstimates' = MapSet(moveEstimates, estimate.id, estimate)
           /\ currentEstimateId' = currentEstimateId + 1
           /\ Await(h, [handler[h] EXCEPT !.pc = "saved"])
    /\ UNCHANGED <<checklistVars, progressVars, now, progressRequests, db>>

CalculateRespond(h) ==
    /\ handler[h].op = "calculate"
    /\ handler[h].pc = "saved"
    /\ Reply(h, [op |-> "calculate", caller |-> handler[h].caller,
                 status |-> 200, data |-> handler[h].data,
                 calculationResult |-> handler[h].calculationResult])
    /\ UNCHANGED <<storageVars, now, progressRequests, db>>

(***************************************************************************)
(* Calls of calculateDistance and of the cost per distance, on arguments   *)
(* of their own.                                                           *)
(***************************************************************************)
\* the texts between the commas of an address
AddressPartTexts ==
    {<<"n", "y">>, <<" ", "N", "Y">>, <<"l", "a">>,
     <<"m", "i", "a", "m", "i">>, <<>>}

\* the addresses of at most n parts
RECURSIVE AddressesOf(_)
AddressesOf(n) ==
    IF n = 1 THEN AddressPartTexts
    ELSE AddressesOf(n - 1)
         \cup {a \o <<",">> \o p : a \in AddressesOf(n - 1),
                                   p \in AddressPartTexts}

\* the addresses a valid request may carry
Addresses ==
    {a \in AddressesOf(MaxAddressParts) : Len(a) >= MinAddressLength}

\* the calls entered
FunctionCalls ==
    [op : {"calculateDistance"}, pc : {"call"},
     origin : Addresses, destination : Addresses]
    \cup [op : {"distanceCost"}, pc : {"call"},
          homeSize : HomeSizes, distance : 0..MaxCallDistance]

CallCalculateDistance(h) ==
    \E random \in 0..(RandomResolution - 1) :
        /\ handler[h].op = "calculateDistance"
        /\ Await(h, [op |-> "calculateDistance", pc |-> "return",
                     origin |-> handler[h].origin,
                     destination |-> handler[h].destination,
                     distance |-> calculateDistance(handler[h].origin,
                                                    handler[h].destination,
                                                    random)])
        /\ UNCHANGED <<storageVars, now, progressRequests, db>>

CallDistanceCost(h) ==
    /\ handler[h].op = "distanceCost"
    /\ handler[h].pc = "call"
    /\ Await(h, [op |-> "distanceCost", pc |-> "return",
                 homeSize |-> handler[h].homeSize,
                 distance |-> handler[h].distance,
                 costDiy |-> DistanceCost(handler[h].homeSize, "diy",
                                          handler[h].distance),
                 costHybrid |-> DistanceCost(handler[h].homeSize, "hybrid",
                                             handler[h].distance),
                 costFullService |->
                     DistanceCost(handler[h].homeSize, "fullService",
                                  handler[h].distance)])
    /\ UNCHANGED <<storageVars, now, progressRequests, db>>

(***************************************************************************)
(* The calculation of a request on its own: the body is parsed by          *)
(* moveCalculationRequestSchema and calculateMovingCosts is called with    *)
(* what the parse returns.                                                 *)
(***************************************************************************)
\* the bodies: every home size, every additionalItems value or none, a
\* local and a long-distance pair of addresses, every list of at most
\* MaxCallServices services or none, and a body the schema refuses
TierBodies ==
    [origin : {HomeAddress},
     destination : {NearAddress, FarAddress, ShortAddress},
     homeSize : HomeSizes,
     additionalItems : AdditionalItems \cup {UndefinedText},
     moveDate : {"2025-06-01"},
     flexibility : {UndefinedText},
     services : {Undefined}
                \cup {Some(s) : s \in ServiceLists(MaxCallServices)}]

\* the calls entered
TierCalls == [op : {"calculateMovingCosts"}, pc : {"call"}, body : TierBodies]

CallParseThrows(h) ==
    /\ handler[h].op = "calculateMovingCosts"
    /\ handler[h].pc = "call"
    /\ ~ValidCalculationBody(handler[h].body)
    /\ Await(h, [op |-> "calculateMovingCosts", pc |-> "threw",
                 body |-> handler[h].body])
    /\ UNCHANGED <<storageVars, now, progressRequests, db>>

CallCalculateMovingCosts(h) ==
    \E random \in 0..(RandomResolution - 1) :
        /\ handler[h].op = "calculateMovingCosts"
        /\ handler[h].pc = "call"
        /\ ValidCalculationBody(handler[h].body)
        /\ LET data == ParseCalculation(handler[h].body)
           IN  Await(h, [op |-> "calculateMovingCosts", pc |-> "return",
                         data |-> data,
                         calculationResult |->
                             calculateMovingCosts(data, random)])
        /\ UNCHANGED <<storageVars, now, progressRequests, db>>

(***************************************************************************)
(* Calls of the methods of MemStorage, on arguments of their own.  No       *)
(* method has an await in its body: a call runs to its end before any other *)
(* call starts, so calls that interleave are calls in some order.           *)
(***************************************************************************)
\* the method op, called with args, has returned result
Return(h, op, args, result) ==
    Await(h, [op |-> op, pc |-> "return", args |-> args, result |-> result])

\* the estimates the calls insert
InsertEstimates ==
    {body \in EstimateBodies :
         /\ ValidEstimateBody(body)
         /\ body.userId \in {Null, Min(Users)}
         /\ body.additionalItems = UndefinedText}

\* the checklists the calls insert
InsertChecklists ==
    [userId : {Min(Users)}, estimateId : 0..1, moveDate : MoveDates]

\* the items the calls insert
InsertItems == {TemplateItem(c, 1) : c \in 1..MaxStored}

StorageCreateMoveEstimate(h) ==
    \E insertEstimate \in InsertEstimates :
        /\ currentEstimateId <= MaxStored
        /\ LET estimate == createMoveEstimate(insertEstimate)
           IN  /\ moveEstimates' = MapSet(moveEstimates, estimate.id, estimate)
               /\ currentEstimateId' = currentEstimateId + 1
               /\ Return(h, "createMoveEstimate", insertEstimate, estimate)
        /\ UNCHANGED <<checklistVars, progressVars, now, progressRequests, db>>

StorageGetMoveEstimate(h) ==
    \E id \in 1..(MaxStored + 1) :
        /\ Return(h, "getMoveEstimate", id, getMoveEstimate(id))
        /\ UNCHANGED <<storageVars, now, progressRequests, db>>

StorageGetAllMoveEstimates(h) ==
    /\ Return(h, "getAllMoveEstimates", <<>>, getAllMoveEstimates)
    /\ UNCHANGED <<storageVars, now, progressRequests, db>>

StorageGetUserEstimates(h) ==
    \E userId \in Users :
        /\ Return(h, "getUserEstimates", userId, getUserEstimates(userId))
        /\ UNCHANGED <<storageVars, now, progressRequests, db>>

StorageCreateMoveChecklist(h) ==
    \E insertChecklist \in InsertChecklists :
        /\ currentChecklistId <= MaxStored
        /\ LET checklist == createMoveChecklist(insertChecklist)
           IN  /\ moveChecklists' =
                      MapSet(moveChecklists, checklist.id, checklist)
               /\ currentChecklistId' = currentChecklistId + 1
               /\ Return(h, "createMoveChecklist", insertChecklist, checklist)
        /\ UNCHANGED <<estimateVars, progressVars, checklistItems,
                       currentChecklistItemId, now, progressRequests, db>>

StorageGetMoveChecklist(h) ==
    \E id \in 1..(MaxStored + 1) :
        /\ Return(h, "getMoveChecklist", id, getMoveChecklist(id))
        /\ UNCHANGED <<storageVars, now, progressRequests, db>>

StorageGetUserChecklists(h) ==
    \E userId \in Users :
        /\ Return(h, "getUserChecklists", userId, getUserChecklists(userId))
        /\ UNCHANGED <<storageVars, now, progressRequests, db>>

StorageGetChecklistByEstimate(h) ==
    \E estimateId \in 1..MaxStored :
        /\ Return(h, "getChecklistByEstimate", estimateId,
                  getChecklistByEstimate(estimateId))
        /\ UNCHANGED <<storageVars, now, progressRequests, db>>

StorageCreateChecklistItem(h) ==
    \E insertItem \in InsertItems :
        /\ currentChecklistItemId <= MaxStored
        /\ LET item == createChecklistItem(insertItem)
           IN  /\ checklistItems' = MapSet(checklistItems, item.id, item)
               /\ currentChecklistItemId' = currentChecklistItemId + 1
               /\ Return(h, "createChecklistItem", insertItem, item)
        /\ UNCHANGED <<estimateVars, progressVars, moveChecklists,
                       currentChecklistId, now, progressRequests, db>>

StorageGetChecklistItems(h) ==
    \E checklistId \in 1..(MaxStored + 1) :
        /\ Return(h, "getChecklistItems", checklistId,
                  getChecklistItems(checklistId))
        /\ UNCHANGED <<storageVars, now, progressRequests, db>>

StorageUpdateChecklistItem(h) ==
    \E id \in 1..(MaxStored + 1), completed \in BOOLEAN :
        LET updatedItem == updateChecklistItem(id, completed)
        IN  /\ checklistItems' =
                   IF IsDefined(updatedItem)
                   THEN MapSet(checklistItems, id, updatedItem[1])
                   ELSE checklistItems
            /\ Return(h, "updateChecklistItem", <<id, completed>>, updatedItem)
            /\ UNCHANGED <<estimateVars, progressVars, moveChecklists,
                           currentChecklistId, currentChecklistItemId, now,
                           progressRequests, db>>

(***************************************************************************)
(* DatabaseStorage: the progress methods, over the table user_progress.    *)
(* A table is the set of its rows; a select with no ORDER BY returns the   *)
(* rows that match in an order the database chooses.                       *)
(***************************************************************************)
\* the default of the column created_at: new Date().toISOString(), evaluated
\* once, when the schema is loaded
createdAtDefault == 0

\* db.select().from(userProgress).where(eq(userProgress.userId, userId))
SelectUserProgress(userId) == {row \in db.userProgress : row.userId = userId}

\* const [row] = rows; return row || undefined: what may be returned
FirstRow(rows) == IF rows = {} THEN {Undefined} ELSE {Some(row) : row \in rows}

\* DatabaseStorage.getUserProgress: what it may return
DatabaseGetUserProgress(userId) == FirstRow(SelectUserProgress(userId))

\* DatabaseStorage.createUserProgress: the row inserted and returned
DatabaseCreateUserProgress(insertProgress) ==
    [id |-> db.userProgressId,
     userId |-> insertProgress.userId,
     points |-> insertProgress.points,
     level |-> insertProgress.level,
     achievements |-> insertProgress.achievements,
     streak |-> insertProgress.streak,
     lastInteraction |-> insertProgress.lastInteraction,
     createdAt |-> createdAtDefault]

\* DatabaseStorage.updateUserProgress: updatedData gives a column no value.
\* An UPDATE needs a column to set: .set({}) has none and the statement fails
NoValuesToSet(updatedData) ==
    /\ ~IsDefined(updatedData.points)
    /\ ~IsDefined(updatedData.level)
    /\ ~IsDefined(updatedData.achievements)
    /\ ~IsDefined(updatedData.streak)
    /\ ~IsDefined(updatedData.lastInteraction)

\* the row after .set(updatedData)
UpdateSet(row, updatedData) ==
    [id |-> row.id,
     userId |-> row.userId,
     points |-> Spread(row.points, updatedData.points),
     level |-> Spread(row.level, updatedData.level),
     achievements |-> Spread(row.achievements, updatedData.achievements),
     streak |-> Spread(row.streak, updatedData.streak),
     lastInteraction |->
         Spread(row.lastInteraction, updatedData.lastInteraction),
     createdAt |-> row.createdAt]

(***************************************************************************)
(* The progress methods of MemStorage and of DatabaseStorage, called side  *)
(* by side with the same arguments.  The call frame keeps what MemStorage  *)
(* returned (result) and what DatabaseStorage did: returned (dbResult) or  *)
(* failed (dbRejected).  A record is created for a user who has none, as   *)
(* the routes do.                                                          *)
(***************************************************************************)
\* the records the calls insert
InsertProgresses ==
    [userId : Users, points : {0, 15}, level : {1}, achievements : {<<>>},
     streak : {0}, lastInteraction : {0}]

BothReturn(h, op, args, result, dbRejected, dbResult) ==
    Await(h, [op |-> op, pc |-> "return", args |-> args, result |-> result,
              dbRejected |-> dbRejected, dbResult |-> dbResult])

BothCreateUserProgress(h) ==
    \E insertProgress \in InsertProgresses :
        /\ ~IsDefined(getUserProgress(insertProgress.userId))
        /\ SelectUserProgress(insertProgress.userId) = {}
        /\ LET progress == createUserProgress(insertProgress)
               row == DatabaseCreateUserProgress(insertProgress)
           IN  /\ userProgressMap' =
                      MapSet(userProgressMap, progress.id, progress)
               /\ currentProgressId' = currentProgressId + 1
               /\ db' = [db EXCEPT !.userProgress = @ \cup {row},
                                   !.userProgressId = @ + 1]
               /\ BothReturn(h, "createUserProgress", insertProgress,
                             Some(progress), FALSE, Some(row))
        /\ UNCHANGED <<estimateVars, checklistVars, now, progressRequests>>

BothGetUserProgress(h) ==
    \E userId \in Users :
        \E dbResult \in DatabaseGetUserProgress(userId) :
            /\ BothReturn(h, "getUserProgress", userId,
                          getUserProgress(userId), FALSE, dbResult)
            /\ UNCHANGED <<storageVars, now, progressRequests, db>>

\* DatabaseStorage.updateUserProgress: no row of the user, or no value to
\* set, or every row of the user updated and the first of them returned
BothUpdateUserProgress(h) ==
    \E userId \in Users, progressUpdate \in ProgressBodies :
        LET updated == updateUserProgress(userId, progressUpdate)
            existing == SelectUserProgress(userId)
            rows == {UpdateSet(row, progressUpdate) : row \in existing}
        IN  /\ userProgressMap' = StoreUpdated(updated)
            /\ IF existing = {}
               THEN /\ UNCHANGED db
                    /\ BothReturn(h, "updateUserProgress",
                                  <<userId, progressUpdate>>, updated,
                                  FALSE, Undefined)
               ELSE IF NoValuesToSet(progressUpdate)
               THEN /\ UNCHANGED db
                    /\ BothReturn(h, "updateUserProgress",
                                  <<userId, progressUpdate>>, updated,
                                  TRUE, Undefined)
               ELSE /\ db' = [db EXCEPT
                                  !.userProgress = (@ \ existing) \cup rows]
                    /\ \E dbResult \in FirstRow(rows) :
                           BothReturn(h, "updateUserProgress",
                                      <<userId, progressUpdate>>, updated,
                                      FALSE, dbResult)
            /\ UNCHANGED <<estimateVars, checklistVars, currentProgressId,
                           now, progressRequests>>

(***************************************************************************)
(* The wall clock.                                                         *)
(***************************************************************************)
Tick ==
    /\ now < MaxClock
    /\ now' = now + 1
    /\ response' = NoResponse
    /\ UNCHANGED <<storageVars, handler, progressRequests, db>>

(***************************************************************************)
(* The specifications.                                                     *)
(***************************************************************************)
Init ==
    /\ moveEstimates = EmptyMap
    /\ moveChecklists = EmptyMap
    /\ checklistItems = EmptyMap
    /\ userProgressMap = EmptyMap
    /\ currentEstimateId = 1
    /\ currentChecklistId = 1
    /\ currentChecklistItemId = 1
    /\ currentProgressId = 1
    /\ now = 0
    /\ handler = [h \in Handlers |-> IdleHandler]
    /\ progressRequests = 0
    /\ db = EmptyDatabase
    /\ response = NoResponse

\* the checklist routes
Next ==
    \E h \in Handlers :
        \/ CreateChecklist(h)
        \/ GenerateChecklistItem(h)
        \/ CreateChecklistReadItems(h)
        \/ CreateChecklistRespond(h)
        \/ GetChecklists(h)
        \/ GetChecklistsRespond(h)
        \/ GetChecklist(h)
        \/ GetChecklistCheck(h)
        \/ GetChecklistRespond(h)
        \/ GetEstimateChecklist(h)
        \/ GetEstimateChecklistCheck(h)
        \/ GetEstimateChecklistRespond(h)
        \/ UpdateChecklistItem(h)
        \/ UpdateChecklistItemRespond(h)

Spec == Init /\ [][Next]_vars

\* the estimate routes
EstimateNext ==
    \/ Tick
    \/ \E h \in Handlers :
        \/ GetAllEstimates(h)
        \/ GetAllEstimatesRespond(h)
        \/ GetMyEstimates(h)
        \/ GetMyEstimatesRespond(h)
        \/ SaveEstimate(h)
        \/ SaveEstimateRespond(h)

EstimateSpec == Init /\ [][EstimateNext]_vars

\* the progress routes
ProgressNext ==
    \/ Tick
    \/ \E h \in Handlers :
        \/ GetUserProgress(h)
        \/ GetUserProgressCreate(h)
        \/ GetUserProgressRespond(h)
        \/ PatchUserProgress(h)
        \/ PatchUserProgressWrite(h)
        \/ PatchUserProgressRespond(h)
        \/ UnlockAchievement(h)
        \/ UnlockAchievementWrite(h)
        \/ UnlockAchievementRespond(h)

ProgressSpec == Init /\ [][ProgressNext]_vars

\* the cost calculation route
CalculationNext ==
    \E h \in Handlers :
        \/ CalculateMovingCosts(h)
        \/ CalculateSave(h)
        \/ CalculateRespond(h)

CalculationSpec == Init /\ [][CalculationNext]_vars

\* a call of calculateDistance or of the cost per distance has been entered
FunctionInit ==
    /\ moveEstimates = EmptyMap
    /\ moveChecklists = EmptyMap
    /\ checklistItems = EmptyMap
    /\ userProgressMap = EmptyMap
    /\ currentEstimateId = 1
    /\ currentChecklistId = 1
    /\ currentChecklistItemId = 1
    /\ currentProgressId = 1
    /\ now = 0
    /\ \E call \in FunctionCalls :
           handler = [h \in Handlers |-> IF h = 1 THEN call ELSE IdleHandler]
    /\ progressRequests = 0
    /\ db = EmptyDatabase
    /\ response = NoResponse

FunctionNext ==
    \E h \in Handlers :
        \/ CallCalculateDistance(h)
        \/ CallDistanceCost(h)

FunctionSpec == FunctionInit /\ [][FunctionNext]_vars

(***************************************************************************)
(* The routes that validate their input, together.                         *)
(***************************************************************************)
\* the bodies of the cost requests followed when every route is served
SampleCalculationBodies ==
    {body \in AcceptedCalculationBodies :
         /\ body.homeSize = "studio"
         /\ body.destination = FarAddress
         /\ body.additionalItems = "piano"
         /\ body.services = Undefined}

\* POST /api/calculate-moving-costs with one of these bodies or a refused one
CalculateSample(h) ==
    CalculateRequest(h, {Null}, RefusedCalculationBodies,
                     SampleCalculationBodies, {0}, MaxEstimates)

\* the requests are served one after another, by one handler
ValidationNext ==
    \E h \in {Min(Handlers)} :
        \/ CalculateSample(h)
        \/ CalculateSave(h)
        \/ CalculateRespond(h)
        \/ SaveEstimate(h)
        \/ SaveEstimateRespond(h)
        \/ CreateChecklist(h)
        \/ GenerateChecklistItem(h)
        \/ CreateChecklistReadItems(h)
        \/ CreateChecklistRespond(h)
        \/ UpdateChecklistItem(h)
        \/ UpdateChecklistItemRespond(h)
        \/ progressRequests < MaxSequentialProgress /\ PatchUserProgress(h)
        \/ PatchUserProgressWrite(h)
        \/ PatchUserProgressRespond(h)
        \/ progressRequests < MaxSequentialProgress /\ UnlockAchievement(h)
        \/ UnlockAchievementWrite(h)
        \/ UnlockAchievementRespond(h)

ValidationSpec == Init /\ [][ValidationNext]_vars

\* the create-checklist route over a storage whose item inserts may fail
FailureNext ==
    \E h \in Handlers :
        \/ CreateChecklist(h)
        \/ GenerateChecklistItem(h)
        \/ GenerateChecklistItemFails(h)
        \/ CreateChecklistReadItems(h)
        \/ CreateChecklistRespond(h)

FailureSpec == Init /\ [][FailureNext]_vars

\* POST /api/checklists while fewer than MaxLinkedChecklists were created
CreateLinkedChecklist(h) == CreateChecklistUpTo(h, MaxLinkedChecklists)

\* the routes that link a checklist to an estimate and look it up by estimate
LinkNext ==
    \E h \in Handlers :
        \/ CreateLinkedChecklist(h)
        \/ GenerateChecklistItem(h)
        \/ CreateChecklistReadItems(h)
        \/ CreateChecklistRespond(h)
        \/ GetEstimateChecklist(h)
        \/ GetEstimateChecklistCheck(h)
        \/ GetEstimateChecklistRespond(h)

LinkSpec == Init /\ [][LinkNext]_vars

\* calls of the methods of the storage, one after another
StorageNext ==
    \E h \in {Min(Handlers)} :
        \/ StorageCreateMoveEstimate(h)
        \/ StorageGetMoveEstimate(h)
        \/ StorageGetAllMoveEstimates(h)
        \/ StorageGetUserEstimates(h)
        \/ StorageCreateMoveChecklist(h)
        \/ StorageGetMoveChecklist(h)
        \/ StorageGetUserChecklists(h)
        \/ StorageGetChecklistByEstimate(h)
        \/ StorageCreateChecklistItem(h)
        \/ StorageGetChecklistItems(h)
        \/ StorageUpdateChecklistItem(h)

StorageSpec == Init /\ [][StorageNext]_vars

\* the progress methods of the two storages, side by side
EquivalenceNext ==
    \E h \in {Min(Handlers)} :
        \/ BothCreateUserProgress(h)
        \/ BothGetUserProgress(h)
        \/ BothUpdateUserProgress(h)

EquivalenceSpec == Init /\ [][EquivalenceNext]_vars

\* one calculation of a request
TierInit ==
    /\ moveEstimates = EmptyMap
    /\ moveChecklists = EmptyMap
    /\ checklistItems = EmptyMap
    /\ userProgressMap = EmptyMap
    /\ currentEstimateId = 1
    /\ currentChecklistId = 1
    /\ currentChecklistItemId = 1
    /\ currentProgressId = 1
    /\ now = 0
    /\ \E call \in TierCalls :
           handler = [h \in Handlers |-> IF h = 1 THEN call ELSE IdleHandler]
    /\ progressRequests = 0
    /\ db = EmptyDatabase
    /\ response = NoResponse

TierNext ==
    \E h \in Handlers :
        \/ CallParseThrows(h)
        \/ CallCalculateMovingCosts(h)

TierSpec == TierInit /\ [][TierNext]_vars

\* POST /api/calculate-moving-costs of any caller, with one of the sample
\* bodies or a refused one
CalculateSampleAs(h) ==
    CalculateRequest(h, Callers, RefusedCalculationBodies,
                     SampleCalculationBodies, {0}, MaxListedEstimates)

\* the routes that create estimates and the list of the caller's estimates
ListedNext ==
    \E h \in Handlers :
        \/ CalculateSampleAs(h)
        \/ CalculateSave(h)
        \/ CalculateRespond(h)
        \/ SaveEstimateUpTo(h, MaxListedEstimates)
        \/ SaveEstimateRespond(h)
        \/ GetMyEstimates(h)
        \/ GetMyEstimatesRespond(h)

ListedSpec == Init /\ [][ListedNext]_vars

\* the routes that create a record for their caller
OwnerNext ==
    \E h \in Handlers :
        \/ SaveEstimate(h)
        \/ SaveEstimateRespond(h)
        \/ CreateChecklist(h)
        \/ GenerateChecklistItem(h)
        \/ CreateChecklistReadItems(h)
        \/ CreateChecklistRespond(h)

OwnerSpec == Init /\ [][OwnerNext]_vars

(***************************************************************************)
(* Properties of the checklist routes.                                     *)
(***************************************************************************)
ChecklistReads == {"getChecklist", "getEstimateChecklist"}

\* the handler h took a step
Stepped(h) == handler'[h] # handler[h]

\* C1: only the owner of an item's parent checklist changes the item's
\* completed flag: in every step that changes the flag of a stored item, the
\* request that made the change is a toggle whose caller owns the parent
\* checklist.
C1_OnlyOwnerTogglesItem ==
    [][\A i \in DOMAIN checklistItems :
           checklistItems'[i].completed # checklistItems[i].completed =>
               \E h \in Handlers :
                   /\ Stepped(h)
                   /\ handler'[h].op = "updateChecklistItem"
                   /\ handler'[h].id = i
                   /\ handler'[h].caller =
                          moveChecklists[checklistItems[i].checklistId].userId
      ]_vars

\* what a get-checklist response may be, for its caller and the checklists stored
C2_Responses ==
    response.op \in ChecklistReads =>
        /\ response.status \in {200, 401, 403, 404}
        /\ (response.status = 401) <=> (response.caller = Null)
        /\ response.status = 200 =>
               /\ response.checklist.userId = response.caller
               /\ response.checklist.id \in DOMAIN moveChecklists
               /\ moveChecklists[response.checklist.id] = response.checklist
               /\ response.op = "getChecklist" =>
                      response.checklist.id = response.id
               /\ response.op = "getEstimateChecklist" =>
                      response.checklist.estimateId = response.id
               /\ \A i \in 1..Len(response.items) :
                      response.items[i].checklistId = response.checklist.id
        /\ response.status = 403 =>
               \E k \in DOMAIN moveChecklists :
                   /\ moveChecklists[k].userId # response.caller
                   /\ response.op = "getChecklist" => k = response.id
                   /\ response.op = "getEstimateChecklist" =>
                          moveChecklists[k].estimateId = response.id

\* no request holds the items of a checklist of another user
C2_ItemsHeldByOwner ==
    \A h \in Handlers :
        (handler[h].op \in ChecklistReads /\ handler[h].pc = "items") =>
            /\ handler[h].checklist[1].userId = handler[h].caller
            /\ \A i \in 1..Len(handler[h].items) :
                   handler[h].items[i].checklistId = handler[h].checklist[1].id

\* the lookup is the storage's, and "not found" is sent exactly when it found
\* nothing
C2_Step ==
    \A h \in Handlers :
        /\ (Idle(h) /\ handler'[h].op = "getChecklist") =>
               handler'[h].checklist =
                   IF handler'[h].id \in DOMAIN moveChecklists
                   THEN <<moveChecklists[handler'[h].id]>> ELSE <<>>
        /\ (Idle(h) /\ handler'[h].op = "getEstimateChecklist") =>
               IF \E k \in DOMAIN moveChecklists :
                      moveChecklists[k].estimateId = handler'[h].id
               THEN /\ handler'[h].checklist # <<>>
                    /\ handler'[h].checklist[1].estimateId = handler'[h].id
               ELSE handler'[h].checklist = <<>>
        /\ (handler[h].op \in ChecklistReads /\ handler[h].pc = "lookup"
               /\ Stepped(h)) =>
               /\ (handler[h].checklist = <<>>) <=>
                      (response'.op = handler[h].op /\ response'.status = 404)
               /\ (handler[h].checklist # <<>>
                      /\ handler[h].checklist[1].userId # handler[h].caller) <=>
                      (response'.op = handler[h].op /\ response'.status = 403)

\* C2: get checklist by id and by estimate answer 401 to a caller who is not
\* authenticated, 404 when the lookup matches no checklist, 403 when the
\* checklist matched belongs to another user, and return the checklist and its
\* items only to the user the checklist belongs to.
C2_ChecklistReadAuthorized ==
    /\ [](C2_Responses /\ C2_ItemsHeldByOwner)
    /\ [][C2_Step]_vars

\* a user who does not own a fully generated checklist asked for it and got 403
C2_Witness ==
    /\ response.op \in ChecklistReads
    /\ response.status = 403
    /\ response.caller # Null
    /\ \E k \in DOMAIN moveChecklists :
           /\ moveChecklists[k].userId # response.caller
           /\ Len(getChecklistItems(k)) = Len(defaultChecklistItems)

\* C4: create checklist appears atomic to a reader: a get-checklist response
\* never carries fewer items than the template has.
C4_CreateChecklistAtomic ==
    (response.op \in ChecklistReads /\ response.status = 200) =>
        Len(response.items) = Len(defaultChecklistItems)

(***************************************************************************)
(* Properties of the estimate routes.                                      *)
(***************************************************************************)
\* C3: a list of estimates (mine or all) holds only estimates of its caller,
\* who is authenticated.
C3_EstimateReadsAuthorized ==
    (response.op \in {"getAllEstimates", "getMyEstimates"}
        /\ response.status = 200) =>
        \A i \in 1..Len(response.estimates) :
            /\ response.caller # Null
            /\ response.estimates[i].userId = response.caller

(***************************************************************************)
(* Properties of the progress routes.                                      *)
(***************************************************************************)
\* the unlock request of handler h read the record of its caller, has updated
\* it and will report a new unlock
ReportsNewUnlock(h) ==
    /\ handler[h].op = "unlockAchievement"
    /\ handler[h].pc = "written"
    /\ IsDefined(handler[h].before)
    /\ IsDefined(handler[h].progress)

\* the points of the record the unlock request of handler h read
PointsBefore(h) == handler[h].before[1].points

\* the unlock request of handler h read a record that had achievement a
SawAchievement(h, a) == Includes(handler[h].before[1].achievements, a)

\* C5: unlock-achievement has no lost updates: when two unlock requests of one
\* user with distinct achievement ids have both updated the user's record and
\* both report a new unlock, the stored progress of the user has both ids, and
\* its points are the points before the first of the two plus both awards.
C5_NoLostUnlock ==
    \A h1, h2 \in Handlers :
        (/\ h1 # h2
         /\ ReportsNewUnlock(h1)
         /\ ReportsNewUnlock(h2)
         /\ handler[h1].caller = handler[h2].caller
         /\ handler[h1].achievementId # handler[h2].achievementId) =>
            LET stored == getUserProgress(handler[h1].caller)[1]
                prior == IF SawAchievement(h1, handler[h2].achievementId)
                         THEN PointsBefore(h2) ELSE PointsBefore(h1)
            IN  /\ Includes(stored.achievements, handler[h1].achievementId)
                /\ Includes(stored.achievements, handler[h2].achievementId)
                /\ stored.points = prior + NumberOr(handler[h1].points, 0)
                                         + NumberOr(handler[h2].points, 0)

\* an unlock request read a record that already has its achievement id
ReadUnlocked(h) ==
    /\ handler[h].op = "unlockAchievement"
    /\ handler[h].pc = "read"
    /\ IsDefined(handler[h].progress)
    /\ Includes(handler[h].progress[1].achievements, handler[h].achievementId)

\* C6: unlocking an achievement id a second time is a no-op.  The record an
\* unlock request reads is the stored record of its caller; after an unlock
\* that found the id missing has written, the stored record has the id once
\* more than the record read; an unlock that reads a record having the id
\* changes no progress record and answers "already unlocked" (success false)
\* with the record it read.
C6_SecondUnlockNoOp ==
    [][\A h \in Handlers :
           /\ (Idle(h) /\ handler'[h].op = "unlockAchievement") =>
                  handler'[h].progress = getUserProgress(handler'[h].caller)
           /\ (handler[h].op = "unlockAchievement" /\ handler[h].pc = "read"
                  /\ Stepped(h) /\ ~ReadUnlocked(h)) =>
                  /\ handler'[h].pc = "written"
                  /\ IsDefined(handler'[h].progress)
                  /\ Includes(handler'[h].progress[1].achievements,
                              handler[h].achievementId)
                  /\ userProgressMap'[handler'[h].progress[1].id] =
                         handler'[h].progress[1]
                  /\ IsDefined(handler[h].progress) =>
                         handler'[h].progress[1].achievements =
                             Append(handler[h].progress[1].achievements,
                                    handler[h].achievementId)
           /\ (ReadUnlocked(h) /\ Stepped(h)) =>
                  /\ userProgressMap' = userProgressMap
                  /\ currentProgressId' = currentProgressId
                  /\ handler'[h] = IdleHandler
                  /\ response'.op = "unlockAchievement"
                  /\ response'.status = 200
                  /\ response'.success = FALSE
                  /\ response'.progress = handler[h].progress[1]
      ]_vars

\* a second unlock of an id was answered "already unlocked" with the stored
\* record, which has the id, at a later time than the first unlock
C6_Witness ==
    /\ response.op = "unlockAchievement"
    /\ response.status = 200
    /\ response.success = FALSE
    /\ Includes(response.progress.achievements, response.achievementId)
    /\ getUserProgress(response.caller) = Some(response.progress)
    /\ response.progress.lastInteraction < now

\* C7: the level of every progress record is floor(points / 100) + 1.
C7_LevelDerived ==
    \A k \in DOMAIN userProgressMap :
        userProgressMap[k].level = (userProgressMap[k].points \div 100) + 1

\* C8: the points of every progress record are never negative and never
\* decrease.
C8_PointsMonotone ==
    /\ [](\A k \in DOMAIN userProgressMap : userProgressMap[k].points >= 0)
    /\ [][\A k \in DOMAIN userProgressMap :
              userProgressMap'[k].points >= userProgressMap[k].points]_vars

\* C9: no achievements list has an id twice.
C9_AchievementsUnique ==
    \A k \in DOMAIN userProgressMap :
        \A i, j \in 1..Len(userProgressMap[k].achievements) :
            i # j => userProgressMap[k].achievements[i] #
                         userProgressMap[k].achievements[j]

\* C10: the achievements of a progress record only grow: every id a record
\* has before a step it has after the step.
C10_AchievementsGrow ==
    [][\A k \in DOMAIN userProgressMap :
           \A i \in 1..Len(userProgressMap[k].achievements) :
               Includes(userProgressMap'[k].achievements,
                        userProgressMap[k].achievements[i])]_vars

\* C11: there is at most one progress record per user, also when requests of
\* one user that find no record interleave at their storage calls.
C11_OneProgressPerUser ==
    \A j, k \in DOMAIN userProgressMap :
        userProgressMap[j].userId = userProgressMap[k].userId => j = k

\* handler h has just run the storage call of a toggle request on a stored item
ToggleStored(h) ==
    /\ Idle(h)
    /\ handler'[h].op = "updateChecklistItem"
    /\ handler'[h].pc = "updated"
    /\ handler'[h].id \in DOMAIN checklistItems

\* two toggle requests of one item in flight that asked for opposite values
OppositeToggles(g, h) ==
    /\ g # h
    /\ handler[g].op = "updateChecklistItem" /\ handler[g].pc = "updated"
    /\ handler[h].op = "updateChecklistItem" /\ handler[h].pc = "updated"
    /\ handler[g].id = handler[h].id
    /\ IsDefined(handler[g].updatedItem) /\ IsDefined(handler[h].updatedItem)
    /\ handler[g].completed # handler[h].completed

\* C12: toggling an item twice returns it to its original state.  When a
\* request sets the flag of an item with completed = c to not c, setting it to
\* c in the state reached stores and returns the original item, equal in every
\* field; and of two requests that set opposite values, the item stored is the
\* one the other request had before it.
C12_DoubleToggle ==
    /\ [][\A h \in Handlers :
              ToggleStored(h) =>
                  \A i \in {handler'[h].id}, c \in {~handler'[h].completed} :
                      checklistItems[i].completed = c =>
                          updateChecklistItem(i, c)' = Some(checklistItems[i])
         ]_vars
    /\ [](\A g, h \in Handlers :
              (OppositeToggles(g, h)
                  /\ checklistItems[handler[h].id] = handler[h].updatedItem[1])
                  => handler[h].updatedItem[1] =
                         [handler[g].updatedItem[1] EXCEPT
                              !.completed = handler[h].completed])

\* an item was set to completed and then back to not completed, and is stored
\* as the template made it
C12_Witness ==
    \E g, h \in Handlers :
        /\ OppositeToggles(g, h)
        /\ handler[g].completed = TRUE
        /\ handler[h].completed = FALSE
        /\ handler[g].updatedItem[1].completed = TRUE
        /\ checklistItems[handler[h].id] = handler[h].updatedItem[1]
        /\ checklistItems[handler[h].id] =
               [createChecklistItem(
                    TemplateItem(checklistItems[handler[h].id].checklistId,
                                 handler[h].id))
                    EXCEPT !.id = handler[h].id]

\* handler h has just run the storage call of a toggle request
ToggleCalled(h) ==
    /\ Idle(h)
    /\ handler'[h].op = "updateChecklistItem"
    /\ handler'[h].pc = "updated"

\* C13: setCompleted(id, b) on an id that is not stored returns "not found"
\* and changes nothing in storage; on a stored id it returns the item with
\* completed = b and every other field as before, stores that item, and
\* changes no other item, checklist, estimate or progress record.  The
\* response is 404 for "not found", else 200 with the item returned.
C13_SetCompletedFrame ==
    [][\A h \in Handlers :
           /\ ToggleCalled(h) =>
                  /\ UNCHANGED <<estimateVars, progressVars, moveChecklists,
                                 currentChecklistId, currentChecklistItemId>>
                  /\ DOMAIN checklistItems' = DOMAIN checklistItems
                  /\ \A k \in DOMAIN checklistItems :
                         k # handler'[h].id =>
                             checklistItems'[k] = checklistItems[k]
                  /\ IF handler'[h].id \in DOMAIN checklistItems
                     THEN LET old == checklistItems[handler'[h].id]
                              new == [id |-> old.id,
                                      checklistId |-> old.checklistId,
                                      task |-> old.task,
                                      description |-> old.description,
                                      category |-> old.category,
                                      timeframe |-> old.timeframe,
                                      completed |-> handler'[h].completed,
                                      createdAt |-> old.createdAt]
                          IN  /\ handler'[h].updatedItem = Some(new)
                              /\ checklistItems'[handler'[h].id] = new
                     ELSE /\ handler'[h].updatedItem = Undefined
                          /\ checklistItems' = checklistItems
           /\ (handler[h].op = "updateChecklistItem"
                  /\ handler[h].pc = "updated" /\ Stepped(h)) =>
                  /\ UNCHANGED storageVars
                  /\ response'.op = "updateChecklistItem"
                  /\ IF IsDefined(handler[h].updatedItem)
                     THEN /\ response'.status = 200
                          /\ response'.item = handler[h].updatedItem[1]
                     ELSE response'.status = 404
      ]_vars

\* a toggle of a stored item was answered with the item, which is stored and
\* completed, among the other items of its checklist, which are not
C13_Witness ==
    /\ response.op = "updateChecklistItem"
    /\ response.status = 200
    /\ response.item.completed
    /\ response.id \in DOMAIN checklistItems
    /\ checklistItems[response.id] = response.item
    /\ \E k \in DOMAIN checklistItems :
           /\ k # response.id
           /\ ~checklistItems[k].completed

\* the timeframes of the checklist template
Timeframes ==
    {"8-weeks", "4-weeks", "2-weeks", "1-week", "moving-day", "after-move"}

\* C14: a successful create-checklist returns the checklist and an item list
\* that is the template instantiated for the id of the checklist: as many
\* items as the template has, item i with the task, description, category and
\* timeframe of template item i, every item of the new checklist and not
\* completed, and each of the six timeframes on some item.
C14_CreateReturnsTemplate ==
    (response.op = "createChecklist" /\ response.status = 201) =>
        /\ Len(response.items) = Len(defaultChecklistItems)
        /\ \A i \in 1..Len(response.items) :
               /\ response.items[i].checklistId = response.checklist.id
               /\ response.items[i].completed = FALSE
               /\ i <= Len(defaultChecklistItems) =>
                      /\ response.items[i].task = defaultChecklistItems[i].task
                      /\ response.items[i].description =
                             defaultChecklistItems[i].description
                      /\ response.items[i].category =
                             defaultChecklistItems[i].category
                      /\ response.items[i].timeframe =
                             defaultChecklistItems[i].timeframe
        /\ \A t \in Timeframes :
               \E i \in 1..Len(response.items) : response.items[i].timeframe = t

(***************************************************************************)
(* Properties of the cost calculation.                                     *)
(***************************************************************************)
\* some part of the one address is a part of the other
SharePart(originParts, destParts) ==
    \E i \in 1..Len(originParts), j \in 1..Len(destParts) :
        originParts[i] = destParts[j]

\* the last parts of the two addresses are equal and not empty
SameLastPart(originParts, destParts) ==
    /\ originParts[Len(originParts)] = destParts[Len(destParts)]
    /\ originParts[Len(originParts)] # <<>>

\* a call of calculateDistance has returned to handler h
DistanceReturned(h) ==
    handler[h].op = "calculateDistance" /\ handler[h].pc = "return"

Calculated == response.op = "calculate" /\ response.status = 200

Tiers == {"diy", "hybrid", "fullService"}

\* the number of times a service is in a list
Times(services, service) ==
    Cardinality({i \in 1..Len(services) : services[i] = service})

\* the fixed amounts of the services, per tier
ServicesSurcharge(services, tier) ==
    Times(services, "packing")
        * (CASE tier = "diy" -> 100 [] tier = "hybrid" -> 200
             [] tier = "fullService" -> 0)
    + Times(services, "storage") * 150
    + Times(services, "cleaning") * 200

\* r is base + distance * perMile, in tenths of a dollar, rounded to the
\* nearest dollar, a half rounded up
RoundsTo(tenths, r) == 10 * r - 5 <= tenths /\ tenths < 10 * r + 5

\* C16: each tier's total is round(base[homeSize][tier] + distance *
\* perMile[tier]) + additionalItemCost[additionalItems][tier] + the fixed
\* amounts of the requested services (packing: diy 100, hybrid 200,
\* fullService 0; storage 150; cleaning 200).
C16_CostFormula ==
    Calculated =>
        \A tier \in Tiers :
            LET data == response.data
                result == response.calculationResult
                rounded == result.costs[tier]
                               - ADDITIONAL_ITEM_COSTS[data.additionalItems][tier]
                               - ServicesSurcharge(data.services, tier)
            IN  RoundsTo(10 * BASE_COSTS[data.homeSize][tier]
                             + result.distance * COST_PER_MILE[tier],
                         rounded)

\* a long move over an odd number of miles, with a gym and two services, was
\* priced
C16_Witness ==
    /\ Calculated
    /\ response.calculationResult.distance >= 200
    /\ response.calculationResult.distance % 2 = 1
    /\ response.data.additionalItems = "gym"
    /\ response.data.services = <<"packing", "storage">>
    /\ response.calculationResult.costs.diy # response.calculationResult.costs.hybrid

\* the elements of a list
Elements(s) == {s[i] : i \in 1..Len(s)}

\* the totals the calculation gives for the data of the response with one
\* field replaced, over the distance of the response
TotalsWith(field, value) ==
    {calculateMovingCosts([response.data EXCEPT ![field] = value], random).costs :
        random \in {r \in 0..(RandomResolution - 1) :
                       calculateDistance(response.data.origin,
                                         response.data.destination, r) =
                           response.calculationResult.distance}}

\* C17: the services are a set: the totals returned for a list of services
\* are the totals of every list with the same elements, whatever its order
\* and however often it repeats a service.
C17_ServicesAsSet ==
    Calculated =>
        \A services \in ServiceLists(MaxServices) :
            Elements(services) = Elements(response.data.services) =>
                TotalsWith("services", services) =
                    {response.calculationResult.costs}

\* C18: the full-service total of a request with a piano is the full-service
\* total of the same request with no additional item.
C18_PianoAbsorbed ==
    (Calculated /\ response.data.additionalItems = "piano") =>
        \A costs \in TotalsWith("additionalItems", "none") :
            costs.fullService = response.calculationResult.costs.fullService

\* C19: the four components of the breakdown are not negative, each is at
\* most the hybrid total returned, and their sum differs from that total by at
\* most 4.
C19_Breakdown ==
    Calculated =>
        LET breakdown == response.calculationResult.breakdown
            hybrid == response.calculationResult.costs.hybrid
            sum == breakdown.transportation + breakdown.labor
                       + breakdown.materials + breakdown.other
        IN  /\ \A c \in {breakdown.transportation, breakdown.labor,
                         breakdown.materials, breakdown.other} :
                   0 <= c /\ c <= hybrid
            /\ sum - hybrid <= 4
            /\ hybrid - sum <= 4

\* a call of the cost per distance has returned to handler h
DistanceCostReturned(h) ==
    handler[h].op = "distanceCost" /\ handler[h].pc = "return"

\* C20: at distance zero, with no additional item and no service, the cost
\* of the diy tier is below that of the hybrid tier, which is below that of
\* the full-service tier, for every home size.
C20_BaseOrder ==
    \A h \in Handlers :
        (DistanceCostReturned(h) /\ handler[h].distance = 0) =>
            LET none == ADDITIONAL_ITEM_COSTS["none"]
                free == calculateServicesCost(<<>>)
                costDiy == handler[h].costDiy + none.diy + free.diy
                costHybrid == handler[h].costHybrid + none.hybrid + free.hybrid
                costFullService ==
                    handler[h].costFullService + none.fullService
                        + free.fullService
            IN  costDiy < costHybrid /\ costHybrid < costFullService

\* the cost of a three-bedroom home at distance zero has been computed: the
\* base costs
C20_Witness ==
    \E h \in Handlers :
        /\ DistanceCostReturned(h)
        /\ handler[h].distance = 0
        /\ handler[h].homeSize = "3bedroom"
        /\ handler[h].costDiy = 300
        /\ handler[h].costFullService = 1800

(***************************************************************************)
(* Properties of the routes together.                                      *)
(***************************************************************************)
\* the routes that answer 400 to an input they refuse
ValidatingRoutes ==
    {"calculate", "saveEstimate", "createChecklist", "patchUserProgress",
     "updateChecklistItem", "unlockAchievement"}

\* the step sent the 400 of a route that refused its input
Rejected == response'.op \in ValidatingRoutes /\ response'.status = 400

\* C21: a request refused by validation persists nothing.  The step in which
\* calculate-cost, save-estimate, create-checklist, update-progress, toggle-item
\* (completed not a boolean) or unlock-achievement (achievementId missing or
\* not a string) answers 400 changes no estimate, checklist, item or progress
\* record and no id counter, and the request made no storage call before it.
C21_RejectedNothingPersisted ==
    [][Rejected => UNCHANGED <<storageVars, handler>>]_vars

\* a toggle with a completed that is no boolean was refused while an estimate,
\* the items of a checklist and a progress record were stored
C21_Witness ==
    /\ response.op = "updateChecklistItem"
    /\ response.status = 400
    /\ response.id \in DOMAIN checklistItems
    /\ DOMAIN moveEstimates # {}
    /\ DOMAIN moveChecklists # {}
    /\ DOMAIN userProgressMap # {}

\* the item generation of handler h has just failed
GenerationFailed(h) ==
    /\ handler[h].op = "createChecklist"
    /\ handler[h].pc = "generate"
    /\ Stepped(h)
    /\ response'.op = "createChecklist"
    /\ response'.status = 500

\* C22: when an item insert fails after the checklist row was stored, the
\* create-checklist request answers with an internal error, the checklist row
\* remains stored, and the checklist has no item.
C22_FailedGenerationLeavesNoItems ==
    [][\A h \in Handlers :
           GenerationFailed(h) =>
               \A id \in {handler[h].checklist.id} :
                   /\ id \in DOMAIN moveChecklists'
                   /\ getChecklistItems(id)' = <<>>
      ]_vars

\* C23: every stored item has the checklistId of a stored checklist, and
\* every stored checklist has one owner, a registered user, who never changes:
\* the checklist stays stored with the userId it has.
C23_ItemsAndOwners ==
    /\ [](\A i \in DOMAIN checklistItems :
              checklistItems[i].checklistId \in DOMAIN moveChecklists)
    /\ [](\A k \in DOMAIN moveChecklists : moveChecklists[k].userId \in Users)
    /\ [][\A k \in DOMAIN moveChecklists :
              /\ k \in DOMAIN moveChecklists'
              /\ moveChecklists'[k].userId = moveChecklists[k].userId]_vars

\* the checklist of user 2 has the items of the template, the first of them
\* completed by a toggle that was answered
C23_Witness ==
    /\ response.op = "updateChecklistItem"
    /\ response.status = 200
    /\ \E k \in DOMAIN moveChecklists :
           /\ moveChecklists[k].userId = 2
           /\ Len(getChecklistItems(k)) = Len(defaultChecklistItems)
           /\ getChecklistItems(k)[1].completed

\* C24: an estimate is linked to by at most one checklist: no two stored
\* checklists have the same estimateId other than null.
C24_OneChecklistPerEstimate ==
    \A j, k \in DOMAIN moveChecklists :
        (moveChecklists[j].estimateId # Null
            /\ moveChecklists[j].estimateId = moveChecklists[k].estimateId)
            => j = k

(***************************************************************************)
(* Properties of the storage methods.                                      *)
(***************************************************************************)
\* the last call of handler h was of method op and has returned
LastCall(h, op) == handler[h].op = op /\ handler[h].pc = "return"

\* when the step is a call of create method op that returned to handler h,
\* the record returned has an id no record of the map had before the call,
\* and the map after the call is the map before it and this record
CreatedFresh(h, op, before, after) ==
    (handler'[h].op = op /\ handler'[h].pc = "return" /\ after # before) =>
        /\ handler'[h].result.id \notin DOMAIN before
        /\ DOMAIN after = DOMAIN before \cup {handler'[h].result.id}
        /\ after[handler'[h].result.id] = handler'[h].result
        /\ \A k \in DOMAIN before : after[k] = before[k]

\* what a getById over map returns for id
Found(map, id) == IF id \in DOMAIN map THEN <<map[id]>> ELSE <<>>

WithoutGenerated(record) == [record EXCEPT !.id = 0, !.createdAt = 0]

\* the two outcomes are both "not found", or records equal apart from the
\* generated id and timestamp
SameOutcome(result, dbResult) ==
    /\ IsDefined(result) = IsDefined(dbResult)
    /\ IsDefined(result) =>
           WithoutGenerated(result[1]) = WithoutGenerated(dbResult[1])

\* C26: the volatile and the durable storage are observationally equivalent:
\* called side by side with the same arguments from empty stores, a progress
\* method returns in both, and returns the same outcome, also
\* updateUserProgress with an empty patch or a patch with no achievements.
C26_StoragesEquivalent ==
    \A h \in Handlers :
        handler[h].op \in {"createUserProgress", "getUserProgress",
                           "updateUserProgress"} =>
            /\ ~handler[h].dbRejected
            /\ SameOutcome(handler[h].result, handler[h].dbResult)

\* every record of the map before the step is in the map after it, unchanged
Kept(before, after) ==
    \A k \in DOMAIN before : k \in DOMAIN after /\ after[k] = before[k]

\* C27: stored records are permanent and, apart from the completed flag of
\* an item, immutable: in every step every estimate and every checklist stays
\* stored with every field as it was, and every item stays stored with every
\* field but completed as it was.
C27_RecordsImmutable ==
    [][/\ Kept(moveEstimates, moveEstimates')
       /\ Kept(moveChecklists, moveChecklists')
       /\ \A k \in DOMAIN checklistItems :
              /\ k \in DOMAIN checklistItems'
              /\ [checklistItems'[k] EXCEPT
                      !.completed = checklistItems[k].completed] =
                     checklistItems[k]]_vars

\* an update has set the flag of the second of two items, beside two
\* estimates and two checklists
C27_Witness ==
    /\ DOMAIN moveEstimates = 1..MaxStored
    /\ DOMAIN moveChecklists = 1..MaxStored
    /\ \E h \in Handlers :
           /\ LastCall(h, "updateChecklistItem")
           /\ handler[h].args = <<MaxStored, TRUE>>
           /\ IsDefined(handler[h].result)
           /\ checklistItems[MaxStored].completed
           /\ ~checklistItems[1].completed


(***************************************************************************)
(* C28: a checklist created by create-checklist and an estimate created by *)
(* save-estimate are owned by the authenticated caller of the request that *)
(* created them, whatever userId the body of the request carries: every    *)
(* record a step adds to the estimates or to the checklists is added by a  *)
(* request of an authenticated caller and has this caller as its userId,   *)
(* and the record a 201 answers is owned by the caller it answers.         *)
(***************************************************************************)
Added(before, after) == DOMAIN after \ DOMAIN before

C28_OwnerIsCaller ==
    [][/\ \A h \in Handlers :
              handler'[h] # handler[h] =>
                  /\ \A k \in Added(moveEstimates, moveEstimates') :
                         /\ handler'[h].op = "saveEstimate"
                         /\ handler'[h].caller \in Users
                         /\ moveEstimates'[k].userId = handler'[h].caller
                  /\ \A k \in Added(moveChecklists, moveChecklists') :
                         /\ handler'[h].op = "createChecklist"
                         /\ handler'[h].caller \in Users
                         /\ moveChecklists'[k].userId = handler'[h].caller
       /\ (response'.op = "saveEstimate" /\ response'.status = 201) =>
              /\ response'.estimate.userId = response'.caller
              /\ moveEstimates'[response'.estimate.id] = response'.estimate
       /\ (response'.op = "createChecklist" /\ response'.status = 201) =>
              /\ response'.checklist.userId = response'.caller
              /\ moveChecklists'[response'.checklist.id] =
                     response'.checklist]_vars

\* one user owns the estimate, the other owns the checklist, and the
\* checklist is answered to its creator
C28_Witness ==
    /\ \E k \in DOMAIN moveEstimates : moveEstimates[k].userId = Min(Users)
    /\ response.op = "createChecklist"
    /\ response.status = 201
    /\ response.caller # Min(Users)
    /\ response.checklist.userId = response.caller
    /\ response.checklist.id \in DOMAIN moveChecklists


(***************************************************************************)
(* Properties of the estimates of the calculation and of the saved ones.   *)
(***************************************************************************)
\* this step stores the estimate of the calculate-cost request of handler h
CalculationStored(h) ==
    /\ handler[h].op = "calculate"
    /\ handler[h].pc = "calculated"
    /\ handler'[h].pc = "saved"

\* this step stores the estimate of a save-estimate request of user u, served
\* by handler h
EstimateSavedBy(h, u) ==
    /\ Idle(h)
    /\ handler'[h].op = "saveEstimate"
    /\ handler'[h].pc = "created"
    /\ handler'[h].caller = u

\* C29: a successful calculate-cost request stores exactly one new estimate,
\* with the distance and the costs of the response of the request and with
\* userId null, whoever the caller is; the estimates of user U grow only by
\* the estimate a save-estimate request of U stores, and list-my-estimates
\* of U reads and answers exactly these estimates.
C29_CalculationsAnonymous ==
    [][\A h \in Handlers :
           handler'[h] # handler[h] =>
               /\ IF CalculationStored(h)
                  THEN LET result == handler[h].calculationResult
                       IN  /\ handler'[h].calculationResult = result
                           /\ \E k \in Added(moveEstimates, moveEstimates') :
                                  /\ Added(moveEstimates, moveEstimates') = {k}
                                  /\ moveEstimates'[k].distance = result.distance
                                  /\ moveEstimates'[k].costDiy = result.costs.diy
                                  /\ moveEstimates'[k].costHybrid =
                                         result.costs.hybrid
                                  /\ moveEstimates'[k].costFullService =
                                         result.costs.fullService
                                  /\ moveEstimates'[k].userId = Null
                  ELSE ("calculate" \in {handler[h].op, handler'[h].op}) =>
                           moveEstimates' = moveEstimates
               /\ (response'.op = "calculate" /\ response'.status = 200) =>
                      /\ handler[h].pc = "saved"
                      /\ response'.calculationResult =
                             handler[h].calculationResult
               /\ Kept(moveEstimates, moveEstimates')
               /\ \A u \in Users :
                      getUserEstimates(u)' =
                          IF EstimateSavedBy(h, u)
                          THEN Append(getUserEstimates(u),
                                      handler'[h].estimate)
                          ELSE getUserEstimates(u)
               /\ (handler'[h].op = "getMyEstimates"
                      /\ handler'[h].pc = "read") =>
                      handler'[h].estimates =
                          getUserEstimates(handler'[h].caller)
               /\ (response'.op = "getMyEstimates"
                      /\ response'.status = 200) =>
                      response'.estimates = handler[h].estimates]_vars

\* a user has saved an estimate and then calculated: the estimate of the
\* calculation is stored with the costs to be answered and without owner,
\* and the list read for the user has the saved estimate alone
C29_Witness ==
    \E h, g \in Handlers :
        /\ handler[h].op = "calculate"
        /\ handler[h].pc = "saved"
        /\ handler[h].caller \in Users
        /\ handler[g].op = "getMyEstimates"
        /\ handler[g].pc = "read"
        /\ handler[g].caller = handler[h].caller
        /\ Len(handler[g].estimates) = 1
        /\ handler[g].estimates[1].userId = handler[h].caller
        /\ Cardinality(DOMAIN moveEstimates) = MaxListedEstimates
        /\ \E k \in DOMAIN moveEstimates :
               /\ moveEstimates[k].userId = Null
               /\ moveEstimates[k].costDiy =
                      handler[h].calculationResult.costs.diy
               /\ moveEstimates[k].distance =
                      handler[h].calculationResult.distance

(***************************************************************************)
(* Properties of the totals of calculateMovingCosts.                       *)
(***************************************************************************)
\* calculateMovingCosts has returned to handler h
TotalsReturned(h) ==
    /\ handler[h].op = "calculateMovingCosts"
    /\ handler[h].pc = "return"

\* C30: for every request the schema accepts, the totals returned are in the
\* order costs.diy < costs.hybrid < costs.fullService.
C30_TiersOrdered ==
    \A h \in Handlers :
        TotalsReturned(h) =>
            LET costs == handler[h].calculationResult.costs
            IN  /\ costs.diy < costs.hybrid
                /\ costs.hybrid < costs.fullService
====
